---- MODULE Spec2Model ----
(***************************************************************************)
(* A model of the student autograder (src/autograder.py): the Unlock Gate  *)
(* (unlock, driven by run_all_tests -u), the Case Runner (run_suite), the  *)
(* deadline wrapper (timed) with its worker thread, and the Suite          *)
(* Orchestrator (run and handle_failure, driven by run_all_tests).         *)
(*                                                                         *)
(* Source text is modelled as a sequence of lines (the result of           *)
(* str.split('\n')), a line as a sequence of tokens.  The tokens "$" and   *)
(* " " are the characters the code inspects; every other token stands for  *)
(* one piece of Python source.                                             *)
(***************************************************************************)
EXTENDS Integers, Sequences, FiniteSets, TLC

\* ------------------------------------------------------------------ bounds

MaxSuites == 2
MaxCases == 2
MaxWrong == 2
MaxRunCases == 2
MaxLines == 2
MaxCalls == 2

\* ------------------------------------------------------- string operations

DOLLAR == "$"
SP == " "

\* str.startswith(prefix)
StartsWith(line, prefix) ==
    /\ Len(line) >= Len(prefix)
    /\ SubSeq(line, 1, Len(prefix)) = prefix

RECURSIVE LStripChars(_, _)
\* str.lstrip(chars): drop leading characters that belong to chars
LStripChars(line, chars) ==
    IF line # <<>> /\ Head(line) \in chars
    THEN LStripChars(Tail(line), chars)
    ELSE line

RECURSIVE RStripChars(_, _)
\* str.rstrip(chars) on one line
RStripChars(line, chars) ==
    IF line # <<>> /\ line[Len(line)] \in chars
    THEN RStripChars(SubSeq(line, 1, Len(line) - 1), chars)
    ELSE line

\* str.strip() on one line (whitespace on both sides)
Strip(line) == RStripChars(LStripChars(line, {SP}), {SP})

\* line[length:]
DropFirst(line, length) == SubSeq(line, length + 1, Len(line))

RECURSIVE LStripNewlines(_)
\* src.lstrip('\n'): leading newline characters are leading empty lines
LStripNewlines(src) ==
    IF Len(src) > 1 /\ src[1] = <<>>
    THEN LStripNewlines(Tail(src))
    ELSE src

RECURSIVE RStripSrc(_)
\* src.rstrip(): trailing whitespace, newlines included
RStripSrc(src) ==
    LET last == RStripChars(src[Len(src)], {SP})
        front == SubSeq(src, 1, Len(src) - 1)
    IN  IF last = <<>> /\ Len(src) > 1
        THEN RStripSrc(front)
        ELSE front \o <<last>>

RECURSIVE LeadingSpace(_)
\* len(re.match('\s+', src).group(0)), 0 without a match: the run of
\* whitespace at the start of src, which goes on across newlines
LeadingSpace(src) ==
    LET first == src[1]
        k == Len(first) - Len(LStripChars(first, {SP}))
    IN  IF k = Len(first) /\ Len(src) > 1
        THEN k + 1 + LeadingSpace(Tail(src))
        ELSE k

\* process_input(src): the lines of src, the indentation of the first
\* non-empty line removed from the front of every line
process_input(src) ==
    LET s == RStripSrc(LStripNewlines(src))
        length == LeadingSpace(s)
    IN  [i \in 1..Len(s) |-> DropFirst(s[i], length)]

\* ------------------------------------------------------------- the stores

\* hash_fn(x) = hmac.new(hash_key, x).digest(): modelled as collision-free,
\* a digest is determined by the key and the message and by nothing else
hash_key == "k"
hash_fn(x) == <<"hmac", hash_key, x>>

\* Scripts of the locked cases.  Payload tokens: "1" and "2" are literals,
\* "x" is the name x, "a" is the statement x = 1.
ScrExpr == << <<"1">> >>
ScrStmtStep == << <<"a">>, <<DOLLAR, SP, "x">> >>
ScrTwoStep == << <<DOLLAR, SP, "1">>, <<DOLLAR, SP, "2">> >>
ScrUnmarked == << <<"a">>, <<"x">> >>

\* A script with the plaintext of its expected outputs, one per evaluation
\* step of run_suite (the data model's invariant for a case)
CaseInputs ==
    << [src |-> ScrExpr, key |-> <<"1">>],
       [src |-> ScrStmtStep, key |-> <<"1">>],
       [src |-> ScrTwoStep, key |-> <<"1", "2">>],
       [src |-> ScrUnmarked, key |-> <<"1">>] >>

\* What the student may type at a prompt, and the ways input() ends
Plain == {"1", "2"}
ExitWords == {"exit()", "quit()"}
Interrupts == {"EOFError", "KeyboardInterrupt"}

\* A locked case [input, outputs]: id is the identity of the list object,
\* <<suite, position>> in the locked store as distributed
LockedCase(s, i, inp) ==
    [id |-> <<s, i>>,
     src |-> inp.src,
     outs |-> [k \in 1..Len(inp.key) |-> hash_fn(inp.key[k])]]

\* A case that was distributed unlocked
PreUnlocked(s) == [id |-> <<s, 0>>, src |-> ScrExpr, outs |-> <<"1">>]

RECURSIVE SumTo(_, _)
SumTo(sizes, n) == IF n = 0 THEN 0 ELSE sizes[n] + SumTo(sizes, n - 1)

\* The locked stores as distributed: any number of suites up to MaxSuites,
\* each of 0..MaxCases cases, the scripts taken in rotation from CaseInputs
LockedStore(sizes, rot) ==
    [s \in 1..Len(sizes) |->
        [i \in 1..sizes[s] |->
            LockedCase(s, i,
                CaseInputs[((SumTo(sizes, s - 1) + i - 1 + rot)
                             % Len(CaseInputs)) + 1])]]

\* The unlocked stores as distributed: some of the suites, each empty or
\* holding one case
UnlockedStore(pre) ==
    [s \in 1..Len(pre) |-> IF pre[s] THEN <<PreUnlocked(s)>> ELSE <<>>]

SeqsUpTo(S, n) == UNION {[1..m -> S] : m \in 0..n}

\* The cases of a store, and the ids of its cases
AllCases(store) ==
    UNION {{store[s][i] : i \in DOMAIN store[s]} : s \in DOMAIN store}
Ids(store) == {c.id : c \in AllCases(store)}

\* ------------------------------------------------------------------ unlock

\* lines = [x.strip() for x in case[0].split('\n') if x.strip() != '']
UnlockLines(src) ==
    SelectSeq([i \in 1..Len(src) |-> Strip(src[i])], LAMBDA l : l # <<>>)

\* if len(lines) > 1 and not line.startswith('$'): the line is printed and
\* no answer is asked for
Shown(lines, li) == Len(lines) > 1 /\ ~StartsWith(lines[li], <<DOLLAR>>)

\* correct = hash_fn(student_input) == outputs[output_num]
Correct(x, outs, output_num) == hash_fn(x) = outs[output_num + 1]

\* Mutant: the case is taken from the back of the suite (suite[-1], pop())
NextCaseLast(suite) == Len(suite)

\* case = suite[0] and suite.pop(0): the position, in the locked suite, of
\* the case that is asked about and then removed
NextCase(suite) == 1

\* list.pop(k)
RemoveAt(seq, k) == SubSeq(seq, 1, k - 1) \o SubSeq(seq, k + 1, Len(seq))

\* Mutant: case[1] is left as it is, the digests stay in the case
MigrateKeepDigests(L, U, sn, ans) ==
    LET k == NextCase(L[sn + 1])
        case == L[sn + 1][k]
    IN  [L |-> [L EXCEPT ![sn + 1] = RemoveAt(@, k)],
         U |-> IF Len(U) = sn
               THEN Append(U, <<case>>)
               ELSE [U EXCEPT ![Len(U)] = Append(@, case)]]

\* Mutant: the case is put in front of the cases unlocked before it
MigrateInsertFront(L, U, sn, ans) ==
    LET k == NextCase(L[sn + 1])
        case == [L[sn + 1][k] EXCEPT !.outs = ans]
    IN  [L |-> [L EXCEPT ![sn + 1] = RemoveAt(@, k)],
         U |-> IF Len(U) = sn
               THEN Append(U, <<case>>)
               ELSE [U EXCEPT ![Len(U)] = <<case>> \o @]]

\* Mutant: the case is appended twice to the unlocked suite
MigrateTwice(L, U, sn, ans) ==
    LET k == NextCase(L[sn + 1])
        case == [L[sn + 1][k] EXCEPT !.outs = ans]
    IN  [L |-> [L EXCEPT ![sn + 1] = RemoveAt(@, k)],
         U |-> IF Len(U) = sn
               THEN Append(U, <<case, case>>)
               ELSE [U EXCEPT ![Len(U)] = Append(Append(@, case), case)]]

\* case[1] = answers; the case is appended to the unlocked suites and
\* popped from the front of its locked suite.  sn is suite_num (from 0).
\* unlocked['suites'][-1] exists here: the assertion at the head of the
\* suite loop has made sure that sn <= len(unlocked['suites']).
Migrate(L, U, sn, ans) ==
    LET k == NextCase(L[sn + 1])
        case == [L[sn + 1][k] EXCEPT !.outs = ans]
    IN  [L |-> [L EXCEPT ![sn + 1] = RemoveAt(@, k)],
         U |-> IF Len(U) = sn
               THEN Append(U, <<case>>)
               ELSE [U EXCEPT ![Len(U)] = Append(@, case)]]

\* unlock has left its suite loop, by its end or by a failed assertion
Stopped(how, e, L, U) ==
    [pc |-> how, exc |-> e, L |-> L, U |-> U,
     sn |-> 0, li |-> 0, ans |-> <<>>, on |-> 0]

RECURSIVE SuiteLoop(_, _, _), CaseLoop(_, _, _), LineLoop(_, _, _, _, _, _)

\* for suite_num, suite in enumerate(locked['suites']), from suite sn on,
\* up to the next call of input() or to the end of unlock
SuiteLoop(L, U, sn) ==
    IF sn >= Len(L) THEN Stopped("returned", "none", L, U)
    ELSE IF ~(sn <= Len(U)) THEN Stopped("raised", "AssertionError", L, U)
    ELSE IF L[sn + 1] = <<>> THEN SuiteLoop(L, U, sn + 1)
    ELSE CaseLoop(L, U, sn)

\* while suite: case = suite[0] ...
CaseLoop(L, U, sn) ==
    IF L[sn + 1] = <<>>
    THEN SuiteLoop(L, U, sn + 1)
    ELSE LineLoop(L, U, sn, 1, <<>>, 0)

\* for line in lines, from line li on; after the last line the case is
\* migrated
LineLoop(L, U, sn, li, ans, on) ==
    LET lines == UnlockLines(L[sn + 1][NextCase(L[sn + 1])].src)
    IN  IF li > Len(lines)
        THEN LET m == Migrate(L, U, sn, ans) IN CaseLoop(m.L, m.U, sn)
        ELSE IF Shown(lines, li)
        THEN LineLoop(L, U, sn, li + 1, ans, on)
        ELSE [pc |-> "prompt", exc |-> "none", L |-> L, U |-> U,
              sn |-> sn, li |-> li, ans |-> ans, on |-> on]

\* Mutant: the interrupt is not caught and ends unlock
OnAbortRaise(st) == [st EXCEPT !.pc = "raised", !.exc = "KeyboardInterrupt"]

\* input() raised KeyboardInterrupt or EOFError, or the student typed
\* exit() or quit(): unlock returns
OnAbort(st) == [st EXCEPT !.pc = "returned"]

\* Mutant: a wrong answer ends the session
OnWrongGiveUp(st) == [st EXCEPT !.pc = "returned"]

\* print("Not quite...try again!") and the while loop asks again
OnWrong(st) == st

\* answers.append(student_input); output_num += 1; the next line
OnCorrect(st, x) ==
    LineLoop(st.L, st.U, st.sn, st.li + 1, Append(st.ans, x), st.on + 1)

\* One pass of the body of "while not correct" with student_input = x
Submit(st, x) ==
    LET suite == st.L[st.sn + 1]
        outs == suite[NextCase(suite)].outs
    IN  IF x \in ExitWords THEN OnAbort(st)
        ELSE IF st.on >= Len(outs)
        THEN [st EXCEPT !.pc = "raised", !.exc = "IndexError"]
        ELSE IF Correct(x, outs, st.on) THEN OnCorrect(st, x)
        ELSE OnWrong(st)

\* --------------------------------------------------------------- run_suite

\* if line.startswith('$ ') or (i == len(lines) - 1 and prompts == 0):
\* line i of lines is an evaluation step
IsStep(lines, i, prompts) ==
    \/ StartsWith(lines[i], <<DOLLAR, SP>>)
    \/ (i = Len(lines) /\ prompts = 0)

RECURSIVE CountSteps(_, _, _)
\* prompts after the loop over lines[i..], prompts steps having been met
CountSteps(lines, i, prompts) ==
    IF i > Len(lines) THEN prompts
    ELSE CountSteps(lines, i + 1,
                    IF IsStep(lines, i, prompts) THEN prompts + 1 ELSE prompts)

\* The number of evaluation steps run_suite performs on the script src
RunSteps(src) == CountSteps(process_input(src), 1, 0)

\* Python source, one token for one piece of source:
\*   "1", "2"   the literals 1 and 2
\*   "x"        the name x
\*   "a", "b"   the statements x = 1 and x = 2
\*   "!"        source that raises when it is run (1/0)
\*   "@"        source whose run never returns
\* A value is written as its literal; a frame maps the name x to its value
\* or to "unbound".
Values == {"1", "2"}
EmptyFrame == [x |-> "unbound"]

\* eval(src, frame) for src a line of tokens: its value, a fault (the
\* source is no expression, a name is unbound, the expression raises), or
\* no return
Eval(src, frame) ==
    LET t == Strip(src)
    IN  IF Len(t) # 1 THEN [kind |-> "fault", val |-> "SyntaxError"]
        ELSE IF t[1] \in Values THEN [kind |-> "value", val |-> t[1]]
        ELSE IF t[1] = "x"
        THEN (IF frame.x = "unbound"
              THEN [kind |-> "fault", val |-> "NameError"]
              ELSE [kind |-> "value", val |-> frame.x])
        ELSE IF t[1] = "@" THEN [kind |-> "hang", val |-> "none"]
        ELSE IF t[1] = "!" THEN [kind |-> "fault", val |-> "ZeroDivisionError"]
        ELSE [kind |-> "fault", val |-> "SyntaxError"]

\* One line of a statement block run in frame: the frame after it, a fault
\* (an indented line, source that is no statement, an unbound name, a
\* raise), or no return
ExecLine(line, frame) ==
    LET t == RStripChars(line, {SP})
    IN  IF t = <<>> THEN [kind |-> "ok", frame |-> frame]
        ELSE IF Len(t) # 1 THEN [kind |-> "fault", frame |-> frame]
        ELSE IF t[1] = "a" THEN [kind |-> "ok", frame |-> [frame EXCEPT !.x = "1"]]
        ELSE IF t[1] = "b" THEN [kind |-> "ok", frame |-> [frame EXCEPT !.x = "2"]]
        ELSE IF t[1] \in Values THEN [kind |-> "ok", frame |-> frame]
        ELSE IF t[1] = "x"
        THEN [kind |-> IF frame.x = "unbound" THEN "fault" ELSE "ok",
              frame |-> frame]
        ELSE IF t[1] = "@" THEN [kind |-> "hang", frame |-> frame]
        ELSE [kind |-> "fault", frame |-> frame]

RECURSIVE Exec(_, _)
\* exec(block, frame) for block a sequence of lines
Exec(block, frame) ==
    IF block = <<>> THEN [kind |-> "ok", frame |-> frame]
    ELSE LET r == ExecLine(Head(block), frame)
         IN  IF r.kind = "ok" THEN Exec(Tail(block), r.frame) ELSE r

\* timed(eval, (src, frame)): the value, the fault re-raised, or
\* TimeoutError when the evaluation does not return in time
Timed(r) == IF r.kind = "hang" THEN [kind |-> "timeout", val |-> "none"] ELSE r

\* Mutant: the comparison is the wrong way round
DifferInverted(expect, actual) == expect = actual

\* if expect != actual
Differ(expect, actual) == expect # actual

\* The body of "if line.startswith('$ ') or ..." for the step at line, the
\* statement block current before it and out_pos expected outputs used:
\* what the step comes to, the frame after it, and the pieces of the case
\* that were run
RunStep(line, current, outs, out_pos, frame) ==
    LET b == Exec(current, frame)
        e == Eval(<<outs[out_pos + 1]>>, b.frame)
        a == Timed(Eval(LStripChars(line, {DOLLAR, SP}), b.frame))
        ran(what, res) == [what |-> what, res |-> res]
    IN  IF b.kind = "fault"
        THEN [res |-> "block_fault", frame |-> b.frame,
              ran |-> <<ran("block", "fault")>>]
        ELSE IF b.kind = "hang"
        THEN [res |-> "hung", frame |-> b.frame, ran |-> <<ran("block", "hang")>>]
        ELSE IF out_pos >= Len(outs)
        THEN [res |-> "StopIteration", frame |-> b.frame,
              ran |-> <<ran("block", "ok")>>]
        ELSE IF e.kind = "fault"
        THEN [res |-> "expect_fault", frame |-> b.frame,
              ran |-> <<ran("block", "ok"), ran("expect", "fault")>>]
        ELSE IF e.kind = "hang"
        THEN [res |-> "hung", frame |-> b.frame,
              ran |-> <<ran("block", "ok"), ran("expect", "hang")>>]
        ELSE IF a.kind = "fault"
        THEN [res |-> "eval_fault", frame |-> b.frame,
              ran |-> <<ran("block", "ok"), ran("expect", "ok"),
                        ran("expr", "fault")>>]
        ELSE IF a.kind = "timeout"
        THEN [res |-> "timeout", frame |-> b.frame,
              ran |-> <<ran("block", "ok"), ran("expect", "ok"),
                        ran("expr", "timeout")>>]
        ELSE IF Differ(e.val, a.val)
        THEN [res |-> "mismatch", frame |-> b.frame,
              ran |-> <<ran("block", "ok"), ran("expect", "ok"),
                        ran("expr", "mismatch")>>]
        ELSE [res |-> "pass", frame |-> b.frame,
              ran |-> <<ran("block", "ok"), ran("expect", "ok"),
                        ran("expr", "ok")>>]

\* Mutant: a mismatch is noted and the case goes on
AfterStepGoOn(res) ==
    IF res \in {"pass", "mismatch"} THEN "line"
    ELSE IF res \in {"block_fault", "eval_fault", "timeout"}
    THEN "TestException"
    ELSE IF res = "hung" THEN "hung"
    ELSE "error"

\* Where run_suite stands after a step that came to res: it goes on with
\* the next line, raises TestException, lets another exception through, or
\* never gets past the step
AfterStep(res) ==
    IF res = "pass" THEN "line"
    ELSE IF res \in {"block_fault", "eval_fault", "timeout", "mismatch"}
    THEN "TestException"
    ELSE IF res = "hung" THEN "hung"
    ELSE "error"

\* ------------------------------------------------------------------- state

VARIABLES
    lockedDisk,     \* locked_tests.pkl: the suites of the test, locked
    unlockedDisk,   \* unlocked_tests.pkl: the suites of the test, unlocked
    mode,           \* "none", "unlock" (-u) or "run": the last process
    pc,             \* "idle", "prompt" (unlock waits in input()), "exited"
    outcome,        \* how the process ended: "none" while it runs,
                    \* "returned", or the exception that ended it
    locked,         \* locked['suites'] of the running process
    unlocked,       \* unlocked['suites'] of the running process
    suite_num,      \* unlock's suite_num
    line_idx,       \* position in lines of the line being asked about
    answers,        \* unlock's answers
    output_num,     \* unlock's output_num
    locked0,        \* history: the locked store as distributed
    lastInput,      \* history: what input() gave last in this process
    wrong,          \* history: wrong answers in a row, up to MaxWrong
    accepted,       \* history: the answers found correct, by case and slot
    rs_preamble,    \* run_suite's preamble
    rs_suite,       \* run_suite's suite: cases [src, outs]
    rpc,            \* run_suite: "start", "case", "line", "returned",
                    \* "TestException", "error" (another exception), "hung"
    global_frame,   \* run_suite's global_frame
    frame,          \* the frame of the case that is run
    case_idx,       \* position in suite of the case that is run
    lineno,         \* position in lines of the line that comes next
    prompts,        \* run_suite's prompts
    current,        \* run_suite's current, as a sequence of lines
    out_pos,        \* number of expected outputs taken from out_iter
    log             \* history: the pieces of the cases that were run

unlockvars ==
    <<lockedDisk, unlockedDisk, mode, pc, outcome, locked, unlocked,
      suite_num, line_idx, answers, output_num, locked0, lastInput, wrong,
      accepted>>

runvars ==
    <<rs_preamble, rs_suite, rpc, global_frame, frame, case_idx, lineno,
      prompts, current, out_pos, log>>

VARIABLES
    fns,            \* timed: the computations fn of the calls, in order
    timeouts,       \* timed: the timeout of each call
    submissions,    \* the ReturningThread objects, one per call begun
    tpc,            \* the controller in timed: "call" (outside timed),
                    \* "join", "is_alive", "error", "result"
    outcomes,       \* history: how each call of timed ended
    waited,         \* history: for each call, whether its worker was
                    \* still running when join stopped waiting
    reads           \* history: the fields of submissions the controller
                    \* has read

timedvars == <<fns, timeouts, submissions, tpc, outcomes, waited, reads>>

VARIABLES
    tests,          \* run_all_tests: the tests that were selected
    all_flag,       \* args.all (-a)
    env,            \* run_all_tests' global_frame, the shared environment
    test_idx,       \* position in tests of the test that is run
    apc,            \* "none", "tests" (run_all_tests between two tests),
                    \* "suites" (run at the head of its suite loop),
                    \* "run_suite", "tally" (run after its suite loop),
                    \* "hung", "exited" (the process is over)
    counter,        \* run's counter
    passed,         \* run's passed
    exit_how,       \* how the process ended: "none", "returned" or the
                    \* exception that ended it
    results,        \* history: how run ended for each test, and whether
                    \* 'All unlocked tests passed!' was printed
    suite_log,      \* history: the suites run_suite was called for
    post_log,       \* history: the executions of postambles
    hf_log          \* history: the calls of handle_failure

testvars ==
    <<tests, all_flag, env, test_idx, apc, counter, passed, exit_how,
      results, suite_log, post_log, hf_log>>

VARIABLES
    args,           \* the command line: mode "unlock" (-u name) or "run"
                    \* (-q name, or no name), and the name or "none"
    code            \* the exit status of the process, <<>> while it runs

mainvars == <<args, code>>

VARIABLES
    make_tweet,     \* trends.py: the function that the global name
    tweet_text,     \* is bound to, for each of the four names of the
    tweet_time,     \* tweet abstract data type
    tweet_location,
    other,          \* the list that is swap_tweet_representation's
                    \* default argument
    swaps,          \* history: calls of swap_tweet_representation
    tweets,         \* the tweets that were loaded
    tweets_by_state \* what group_tweets_by_state has returned for them

trendsvars ==
    <<make_tweet, tweet_text, tweet_time, tweet_location, other, swaps,
      tweets, tweets_by_state>>

VARIABLES
    cpc,            \* the controller, seen from the dictionaries it works
                    \* on: "none", "suite", "case", "step", "timed" (in
                    \* timed for run_suite), "except", "replay", "replayed"
                    \* (in timed for handle_failure), "done"
    dicts,          \* the dictionaries made so far, numbered from 1
    suite_dict,    \* run_suite's global_frame
    case_dict,     \* run_suite's frame
    replay_dict,   \* handle_failure's global_frame
    steps,          \* the evaluation steps of the case that is run
    step_idx,       \* position in steps of the step that comes next
    call_frames,    \* for each call of timed, the dictionary eval is given
    clashes         \* history: the dictionaries the controller has used
                    \* while a worker was evaluating in them, or after
                    \* timed raised TimeoutError for that worker

framevars ==
    <<cpc, dicts, suite_dict, case_dict, replay_dict, steps, step_idx,
      call_frames, clashes>>

vars ==
    <<unlockvars, runvars, timedvars, testvars, mainvars, trendsvars,
      framevars>>

\* unlock's position as one record
Here ==
    [pc |-> "prompt", exc |-> "none", L |-> locked, U |-> unlocked,
     sn |-> suite_num, li |-> line_idx, ans |-> answers, on |-> output_num]

\* No process has been started
NoProcess ==
    /\ mode = "none"
    /\ pc = "idle"
    /\ outcome = "none"
    /\ locked = <<>>
    /\ unlocked = <<>>
    /\ suite_num = 0
    /\ line_idx = 0
    /\ answers = <<>>
    /\ output_num = 0
    /\ lastInput = "none"
    /\ wrong = 0
    /\ accepted = {}

\* run_suite has not been called
NoSuite ==
    /\ rs_preamble = <<<<>>>>
    /\ rs_suite = <<>>
    /\ rpc = "none"
    /\ global_frame = EmptyFrame
    /\ frame = EmptyFrame
    /\ case_idx = 0
    /\ lineno = 0
    /\ prompts = 0
    /\ current = <<>>
    /\ out_pos = 0
    /\ log = <<>>

\* timed has not been called
NoTimed ==
    /\ fns = <<>>
    /\ timeouts = <<>>
    /\ submissions = <<>>
    /\ tpc = "none"
    /\ outcomes = <<>>
    /\ waited = <<>>
    /\ reads = {}

\* No command line is modelled
NoMain ==
    /\ args = [mode |-> "none", name |-> "none"]
    /\ code = <<>>

\* The representations of a tweet: the functions of the dictionary
\* representation and those of the functional one, in the order make_tweet,
\* tweet_text, tweet_time, tweet_location
DictRep == <<"make_tweet", "tweet_text", "tweet_time", "tweet_location">>
FnRep ==
    <<"make_tweet_fn", "tweet_text_fn", "tweet_time_fn", "tweet_location_fn">>

\* trends.py as it is after its import: the names are bound to the
\* dictionary representation, the default list holds the functional one
Imported ==
    /\ make_tweet = DictRep[1]
    /\ tweet_text = DictRep[2]
    /\ tweet_time = DictRep[3]
    /\ tweet_location = DictRep[4]
    /\ other = FnRep
    /\ swaps = 0

\* trends.py with nothing loaded or grouped
NoTrends ==
    /\ Imported
    /\ tweets = <<>>
    /\ tweets_by_state = [kind |-> "none", dict |-> <<>>]

\* No dictionary is followed
NoFrames ==
    /\ cpc = "none"
    /\ dicts = 0
    /\ suite_dict = 0
    /\ case_dict = 0
    /\ replay_dict = 0
    /\ steps = <<>>
    /\ step_idx = 0
    /\ call_frames = <<>>
    /\ clashes = {}

\* run_all_tests has not run a test
NoTest ==
    /\ tests = <<>>
    /\ all_flag = FALSE
    /\ env = EmptyFrame
    /\ test_idx = 0
    /\ apc = "none"
    /\ counter = 0
    /\ passed = 0
    /\ exit_how = "none"
    /\ results = <<>>
    /\ suite_log = <<>>
    /\ post_log = <<>>
    /\ hf_log = <<>>

Init ==
    /\ \E sizes \in SeqsUpTo(0..MaxCases, MaxSuites),
          rot \in 0..Len(CaseInputs) - 1 :
         \E pre \in SeqsUpTo(BOOLEAN, Len(sizes)) :
           /\ lockedDisk = LockedStore(sizes, rot)
           /\ locked0 = LockedStore(sizes, rot)
           /\ unlockedDisk = UnlockedStore(pre)
    /\ NoProcess
    /\ NoSuite
    /\ NoTimed
    /\ NoMain
    /\ NoTrends
    /\ NoFrames
    /\ NoTest

\* Mutant: both stores are dumped whenever unlock stops, at a prompt and
\* with an exception as well
ContinueWriteThrough(st) ==
    /\ pc' = IF st.pc = "prompt" THEN "prompt" ELSE "exited"
    /\ outcome' = IF st.pc = "prompt" THEN "none"
                  ELSE IF st.pc = "returned" THEN "returned" ELSE st.exc
    /\ locked' = st.L
    /\ unlocked' = st.U
    /\ suite_num' = st.sn
    /\ line_idx' = st.li
    /\ answers' = st.ans
    /\ output_num' = st.on
    /\ lockedDisk' = st.L
    /\ unlockedDisk' = st.U

\* run_all_tests after unlock: unlock stands at a prompt, or it has
\* returned and both stores are dumped, or it has raised and nothing is
\* written
Continue(st) ==
    /\ pc' = IF st.pc = "prompt" THEN "prompt" ELSE "exited"
    /\ outcome' = IF st.pc = "prompt" THEN "none"
                  ELSE IF st.pc = "returned" THEN "returned" ELSE st.exc
    /\ locked' = st.L
    /\ unlocked' = st.U
    /\ suite_num' = st.sn
    /\ line_idx' = st.li
    /\ answers' = st.ans
    /\ output_num' = st.on
    /\ lockedDisk' = IF st.pc = "returned" THEN st.L ELSE lockedDisk
    /\ unlockedDisk' = IF st.pc = "returned" THEN st.U ELSE unlockedDisk

\* python3 autograder.py -u q: both stores are loaded and unlock runs up to
\* its first prompt
StartUnlock ==
    /\ pc \in {"idle", "exited"}
    /\ mode' = "unlock"
    /\ Continue(SuiteLoop(lockedDisk, unlockedDisk, 0))
    /\ lastInput' = "none"
    /\ wrong' = 0
    /\ UNCHANGED <<locked0, accepted, runvars, timedvars, testvars, mainvars,
                   trendsvars, framevars>>

\* The student types x at the prompt
Answer(x) ==
    /\ pc = "prompt"
    /\ LET suite == locked[suite_num + 1]
           case == suite[NextCase(suite)]
           ok == output_num < Len(case.outs)
                   /\ hash_fn(x) = case.outs[output_num + 1]
       IN  /\ Continue(Submit(Here, x))
           /\ lastInput' = x
           /\ wrong' = IF x \in Plain /\ ~ok
                       THEN (IF wrong < MaxWrong THEN wrong + 1 ELSE wrong)
                       ELSE 0
           /\ accepted' = IF x \in Plain /\ ok
                          THEN accepted \cup
                               {[id |-> case.id, slot |-> output_num + 1, text |-> x]}
                          ELSE accepted
    /\ UNCHANGED <<mode, locked0, runvars, timedvars, testvars, mainvars,
                   trendsvars, framevars>>

\* input() raises KeyboardInterrupt or EOFError
Interrupt(e) ==
    /\ pc = "prompt"
    /\ Continue(OnAbort(Here))
    /\ lastInput' = e
    /\ wrong' = 0
    /\ UNCHANGED <<mode, locked0, accepted, runvars, timedvars, testvars,
                   mainvars, trendsvars, framevars>>

\* python3 autograder.py without -u: the unlocked store is loaded and the
\* tests are run; no store is written
StartRun ==
    /\ pc \in {"idle", "exited"}
    /\ mode' = "run"
    /\ pc' = "exited"
    /\ outcome' = "returned"
    /\ locked' = <<>>
    /\ unlocked' = unlockedDisk
    /\ suite_num' = 0
    /\ line_idx' = 0
    /\ answers' = <<>>
    /\ output_num' = 0
    /\ lastInput' = "none"
    /\ wrong' = 0
    /\ UNCHANGED <<lockedDisk, unlockedDisk, locked0, accepted, runvars,
                   timedvars, testvars, mainvars, trendsvars, framevars>>

Next ==
    \/ StartUnlock
    \/ \E x \in Plain \cup ExitWords : Answer(x)
    \/ \E e \in Interrupts : Interrupt(e)
    \/ StartRun

Spec == Init /\ [][Next]_vars

\* ------------------------------------------------- run_suite, step by step

Marked(t) == <<DOLLAR, SP, t>>

\* The lines of the scripts that are run
RunLines ==
    {<<"a">>, <<"!">>, <<"1">>, <<"x">>,
     Marked("1"), Marked("x"), Marked("!"), Marked("@")}

\* Scripts of up to MaxLines lines, three longer ones: a statement block
\* that faults before the first step and between two steps, and a block
\* that binds x between two steps; and the script '', which is one line
\* without a token
RunScripts ==
    (SeqsUpTo(RunLines, MaxLines) \ {<<>>})
      \cup {<<<<"!">>, Marked("1"), Marked("1")>>,
            <<Marked("1"), <<"!">>, Marked("1")>>,
            <<Marked("1"), <<"b">>, Marked("x")>>,
            <<<<>>>>}

\* Expected outputs: plaintext expressions, one per slot
RunOuts == {<<"1">>, <<"1", "1">>, <<"1", "2">>, <<"2", "1">>, <<"x", "!">>}

\* The cases that may follow the first case of a suite
FollowCases ==
    {[src |-> <<<<"x">>>>, outs |-> <<"1">>],
     [src |-> <<<<"a">>, Marked("x")>>, outs |-> <<"1">>]}

\* '', 'x = 1' and '1/0'
Preambles == {<<<<>>>>, <<<<"a">>>>, <<<<"!">>>>}

InitRun ==
    /\ lockedDisk = <<>>
    /\ locked0 = <<>>
    /\ unlockedDisk = <<>>
    /\ NoProcess
    /\ rs_preamble \in Preambles
    /\ \E src \in RunScripts, outs \in RunOuts :
         \E rest \in SeqsUpTo(FollowCases, MaxRunCases - 1) :
           rs_suite = <<[src |-> src, outs |-> outs]>> \o rest
    /\ rpc = "start"
    /\ global_frame = EmptyFrame
    /\ frame = EmptyFrame
    /\ case_idx = 1
    /\ lineno = 0
    /\ prompts = 0
    /\ current = <<>>
    /\ out_pos = 0
    /\ log = <<>>
    /\ NoTimed
    /\ NoMain
    /\ NoTrends
    /\ NoFrames
    /\ NoTest

\* The lines of the case that is run
Lines == process_input(rs_suite[case_idx].src)

\* What was run of line ln of the case that is run
Logged(ran) ==
    [k \in 1..Len(ran) |->
        [case |-> case_idx, line |-> lineno, what |-> ran[k].what,
         res |-> ran[k].res]]

\* new_preamble = compile(...); exec(new_preamble, global_frame)
StartSuite ==
    /\ rpc = "start"
    /\ LET r == Exec(process_input(rs_preamble), global_frame)
       IN  /\ rpc' = IF r.kind = "ok" THEN "case"
                      ELSE IF r.kind = "hang" THEN "hung" ELSE "error"
           /\ global_frame' = r.frame
    /\ UNCHANGED <<rs_preamble, rs_suite, frame, case_idx, lineno, prompts,
                   current, out_pos, log, unlockvars, timedvars,
                   testvars, mainvars, trendsvars, framevars>>

\* Mutant: the case goes on in the frame of the case before it
CaseFrameShared(suite_frame, last_frame) == last_frame

\* frame = global_frame.copy(): the frame a case starts in, given the
\* frame of the suite and the frame the case before it has left
CaseFrame(suite_frame, last_frame) == suite_frame

\* for test, outputs, *explanation in suite: the next case, in a copy of
\* global_frame
BeginCase ==
    /\ rpc = "case"
    /\ case_idx <= Len(rs_suite)
    /\ rpc' = "line"
    /\ frame' = CaseFrame(global_frame, frame)
    /\ lineno' = 1
    /\ prompts' = 0
    /\ current' = <<>>
    /\ out_pos' = 0
    /\ UNCHANGED <<rs_preamble, rs_suite, global_frame, case_idx, log,
                   unlockvars, timedvars, testvars, mainvars, trendsvars,
                   framevars>>

\* The suite has no further case: run_suite returns
EndSuite ==
    /\ rpc = "case"
    /\ case_idx > Len(rs_suite)
    /\ rpc' = "returned"
    /\ UNCHANGED <<rs_preamble, rs_suite, global_frame, frame, case_idx,
                   lineno, prompts, current, out_pos, log, unlockvars,
                   timedvars, testvars, mainvars, trendsvars, framevars>>

\* for i, line in enumerate(lines): one line, an evaluation step or a line
\* of the statement block
Line ==
    /\ rpc = "line"
    /\ lineno <= Len(Lines)
    /\ IF IsStep(Lines, lineno, prompts)
       THEN LET r == RunStep(Lines[lineno], current, rs_suite[case_idx].outs,
                             out_pos, frame)
            IN  /\ prompts' = prompts + 1
                /\ rpc' = AfterStep(r.res)
                /\ frame' = r.frame
                /\ current' = <<>>
                /\ out_pos' = IF Len(r.ran) >= 2 THEN out_pos + 1 ELSE out_pos
                /\ lineno' = IF AfterStep(r.res) = "line"
                             THEN lineno + 1 ELSE lineno
                /\ log' = log \o Logged(r.ran)
       ELSE /\ current' = Append(current, Lines[lineno])
            /\ lineno' = lineno + 1
            /\ UNCHANGED <<rpc, frame, prompts, out_pos, log>>
    /\ UNCHANGED <<rs_preamble, rs_suite, global_frame, case_idx, unlockvars,
                   timedvars, testvars, mainvars, trendsvars, framevars>>

\* After the last line: "if prompts == 0" compares the last line once more,
\* without a timeout; then the next case
EndCase ==
    /\ rpc = "line"
    /\ lineno > Len(Lines)
    /\ IF prompts = 0
       THEN LET r == RunStep(Lines[Len(Lines)], <<>>, rs_suite[case_idx].outs,
                             out_pos, frame)
            IN  /\ rpc' = IF r.res = "pass" THEN "case"
                          ELSE IF r.res = "mismatch" THEN "TestException"
                          ELSE IF r.res \in {"hung", "timeout"} THEN "hung"
                          ELSE "error"
                /\ case_idx' = IF r.res = "pass" THEN case_idx + 1 ELSE case_idx
                /\ log' = log \o Logged(r.ran)
       ELSE /\ rpc' = "case"
            /\ case_idx' = case_idx + 1
            /\ log' = log
    /\ UNCHANGED <<rs_preamble, rs_suite, global_frame, frame, lineno,
                   prompts, current, out_pos, unlockvars, timedvars, testvars,
                   mainvars, trendsvars, framevars>>

NextRun == StartSuite \/ BeginCase \/ EndSuite \/ Line \/ EndCase

SpecRun == InitRun /\ [][NextRun]_vars

\* ------------------------------------------------------------------- timed

\* TIMEOUT = 10, and the timeout check_for_updates passes
TIMEOUT == 10
UpdateTimeout == 2

\* The computations fn(*args, **kargs) that timed is given: one that
\* returns a value (None among them), one that raises an Exception, one
\* that raises SystemExit (exit()), which is no Exception, and one that
\* never returns
Computations ==
    {[kind |-> "value", val |-> "1"],
     [kind |-> "value", val |-> "None"],
     [kind |-> "fault", val |-> "ZeroDivisionError"],
     [kind |-> "exit", val |-> "SystemExit"],
     [kind |-> "never", val |-> "none"]}

\* ReturningThread.__init__ and start(): result and error are None and
\* the thread runs
ReturningThread == [pc |-> "running", result |-> "None", error |-> "None"]

\* Thread.is_alive(): the thread has not ended
is_alive(thread) == thread.pc # "ended"

\* Mutant: the thread object is shared by the calls, the controller
\* looks at the one of the first call
SubmissionFirst == IF submissions = <<>> THEN 0 ELSE 1

\* submission: the thread object the controller made in this call
Submission == Len(submissions)

\* raise TimeoutError(timeout)
TimeoutError(timeout) == [kind |-> "TimeoutError", val |-> timeout]

\* A call of timed ends with out: the controller is outside timed again
Leave(out) ==
    /\ tpc' = "call"
    /\ outcomes' = Append(outcomes, out)

InitTimed ==
    /\ lockedDisk = <<>>
    /\ locked0 = <<>>
    /\ unlockedDisk = <<>>
    /\ NoProcess
    /\ NoSuite
    /\ NoTest
    /\ NoMain
    /\ NoTrends
    /\ NoFrames
    /\ fns \in [1..MaxCalls -> Computations]
    /\ timeouts \in [1..MaxCalls -> {TIMEOUT, UpdateTimeout}]
    /\ submissions = <<>>
    /\ tpc = "call"
    /\ outcomes = <<>>
    /\ waited = <<>>
    /\ reads = {}

\* submission = ReturningThread(); submission.start()
Start ==
    /\ tpc = "call"
    /\ Len(submissions) < Len(fns)
    /\ submissions' = Append(submissions, ReturningThread)
    /\ tpc' = "join"
    /\ UNCHANGED <<fns, timeouts, outcomes, waited, reads, unlockvars,
                   runvars, testvars, mainvars, trendsvars, framevars>>

\* submission.join(timeout) returns because the thread has ended
JoinEnds ==
    /\ tpc = "join"
    /\ ~is_alive(submissions[Submission])
    /\ tpc' = "is_alive"
    /\ waited' = Append(waited, FALSE)
    /\ UNCHANGED <<fns, timeouts, submissions, outcomes, reads, unlockvars,
                   runvars, testvars, mainvars, trendsvars, framevars>>

\* submission.join(timeout) returns because timeout seconds have passed
JoinTimesOut ==
    /\ tpc = "join"
    /\ is_alive(submissions[Submission])
    /\ tpc' = "is_alive"
    /\ waited' = Append(waited, TRUE)
    /\ UNCHANGED <<fns, timeouts, submissions, outcomes, reads, unlockvars,
                   runvars, testvars, mainvars, trendsvars, framevars>>

\* if submission.is_alive(): raise TimeoutError(timeout)
IsAlive ==
    /\ tpc = "is_alive"
    /\ IF is_alive(submissions[Submission])
       THEN Leave(TimeoutError(timeouts[Len(outcomes) + 1]))
       ELSE tpc' = "error" /\ outcomes' = outcomes
    /\ UNCHANGED <<fns, timeouts, submissions, waited, reads, unlockvars,
                   runvars, testvars, mainvars, trendsvars, framevars>>

\* What the controller reads: a field of a submission, and whether timed
\* has raised TimeoutError for that submission before
Read(k, field) ==
    [sub |-> k, field |-> field,
     abandoned |-> k <= Len(outcomes) /\ outcomes[k].kind = "TimeoutError"]

\* if submission.error is not None: raise submission.error
CheckError ==
    /\ tpc = "error"
    /\ reads' = reads \cup {Read(Submission, "error")}
    /\ IF submissions[Submission].error # "None"
       THEN Leave([kind |-> "raised", val |-> submissions[Submission].error])
       ELSE tpc' = "result" /\ outcomes' = outcomes
    /\ UNCHANGED <<fns, timeouts, submissions, waited, unlockvars, runvars,
                   testvars, mainvars, trendsvars, framevars>>

\* return submission.result
Return ==
    /\ tpc = "result"
    /\ reads' = reads \cup {Read(Submission, "result")}
    /\ Leave([kind |-> "returned", val |-> submissions[Submission].result])
    /\ UNCHANGED <<fns, timeouts, submissions, waited, unlockvars, runvars,
                   testvars, mainvars, trendsvars, framevars>>

\* ReturningThread.run in the thread of call k: fn returns and its value
\* is stored in result, or fn raises an Exception, which is stored in
\* error; an exception that is no Exception is not caught and ends the
\* thread with both fields None
Run(k) ==
    /\ k \in DOMAIN submissions
    /\ submissions[k].pc = "running"
    /\ fns[k].kind # "never"
    /\ submissions' =
         [submissions EXCEPT ![k] =
            IF fns[k].kind = "value"
            THEN [@ EXCEPT !.pc = "stored", !.result = fns[k].val]
            ELSE IF fns[k].kind = "fault"
            THEN [@ EXCEPT !.pc = "stored", !.error = fns[k].val]
            ELSE [@ EXCEPT !.pc = "ended"]]
    /\ UNCHANGED <<fns, timeouts, tpc, outcomes, waited, reads, unlockvars,
                   runvars, testvars, mainvars, trendsvars, framevars>>

\* The thread of call k ends after run has returned
ThreadEnds(k) ==
    /\ k \in DOMAIN submissions
    /\ submissions[k].pc = "stored"
    /\ submissions' = [submissions EXCEPT ![k].pc = "ended"]
    /\ UNCHANGED <<fns, timeouts, tpc, outcomes, waited, reads, unlockvars,
                   runvars, testvars, mainvars, trendsvars, framevars>>

NextTimed ==
    \/ Start
    \/ JoinEnds
    \/ JoinTimesOut
    \/ IsAlive
    \/ CheckError
    \/ Return
    \/ \E k \in 1..MaxCalls : Run(k)
    \/ \E k \in 1..MaxCalls : ThreadEnds(k)

SpecTimed == InitTimed /\ [][NextTimed]_vars

\* ---------------------------------------------------------- handle_failure

\* console.push(line) with locals = glob: the line is run in glob; what
\* it raises is printed by the console and not raised
push(line, glob) ==
    LET r == ExecLine(line, glob)
    IN  [kind |-> IF r.kind = "hang" THEN "hang" ELSE "ok", frame |-> r.frame]

RECURSIVE PushLines(_, _)
\* for line in process_input(error.preamble): empty lines are passed
\* over, the others are pushed one by one
PushLines(lines, glob) ==
    IF lines = <<>> THEN [kind |-> "ok", frame |-> glob]
    ELSE IF Head(lines) = <<>> THEN PushLines(Tail(lines), glob)
    ELSE LET r == push(Head(lines), glob)
         IN  IF r.kind = "ok" THEN PushLines(Tail(lines), r.frame) ELSE r

\* if line.startswith('$ ') or (i == len(lines) - 1 and prompts == 0) in
\* handle_failure, where prompts is set to 0 and never changed
ReplayIsStep(lines, i) ==
    \/ StartsWith(lines[i], <<DOLLAR, SP>>)
    \/ i = Len(lines)

\* What handle_failure comes to: it returns True with a report printed,
\* it returns False, an exception leaves it, or it never returns
Found(report) == [kind |-> "True", report |-> report]
NotFound == [kind |-> "False", report |-> "none"]
Escapes(e) == [kind |-> "raised", report |-> e]
Stuck == [kind |-> "hung", report |-> "none"]

RECURSIVE Replay(_, _, _, _, _)
\* for i, line in enumerate(lines), from line i on, after taken expected
\* outputs were taken from outputs
Replay(lines, i, outs, taken, glob) ==
    IF i > Len(lines) THEN NotFound
    ELSE IF ReplayIsStep(lines, i)
    THEN LET line == LStripChars(lines[i], {DOLLAR, SP})
             e == Eval(<<outs[taken + 1]>>, glob)
             a == Timed(Eval(line, glob))
         IN  IF taken >= Len(outs) THEN Escapes("StopIteration")
             ELSE IF e.kind = "fault" THEN Escapes(e.val)
             ELSE IF e.kind = "hang" THEN Stuck
             ELSE IF a.kind = "fault" /\ a.val = "RuntimeError"
             THEN Found("recursion")
             ELSE IF a.kind = "timeout" THEN Found("timeout")
             ELSE IF a.kind = "fault"
             THEN (IF push(line, glob).kind = "hang" THEN Stuck
                   ELSE Found("fault"))
             ELSE IF Differ(e.val, a.val) THEN Found("mismatch")
             ELSE Replay(lines, i + 1, outs, taken + 1, glob)
    ELSE IF lines[i] = <<>> THEN Replay(lines, i + 1, outs, taken, glob)
    ELSE LET r == push(lines[i], glob)
         IN  IF r.kind = "hang" THEN Stuck
             ELSE Replay(lines, i + 1, outs, taken, r.frame)

\* handle_failure(error, suite, global_frame, interactive) for the
\* TestException of the case with script src and expected outputs outs,
\* raised after preamble
handle_failure(preamble, src, outs, glob) ==
    LET p == PushLines(process_input(preamble), glob)
    IN  IF p.kind = "hang" THEN Stuck
        ELSE Replay(process_input(src), 1, outs, 0, p.frame)

\* ------------------------------------------------- run and run_all_tests

\* The string '' as lines
EmptySrc == <<<<>>>>

\* p + q for two strings given as lines: the last line of p and the first
\* line of q become one line
Concat(p, q) ==
    SubSeq(p, 1, Len(p) - 1) \o <<p[Len(p)] \o q[1]>> \o Tail(q)

\* test['preamble'].get(counter, ''), the codes of the suites given in
\* the order of the suites
Get(own, n) == IF n + 1 \in DOMAIN own THEN own[n + 1] ELSE EmptySrc

\* The cases of the tests that are run: a case that passes, one that binds
\* x and passes, one that reads x, a mismatch, a faulting expression, an
\* expression that never returns in the second step, the case of an
\* unmarked script as unlock stores it (no expected output), a faulting
\* expected output, and a faulting statement before a step that passes
CasePass == [src |-> <<<<"1">>>>, outs |-> <<"1">>]
CaseBind == [src |-> <<<<"a">>, Marked("x")>>, outs |-> <<"1">>]
CaseRead == [src |-> <<<<"x">>>>, outs |-> <<"1">>]
CaseMismatch == [src |-> <<<<"1">>>>, outs |-> <<"2">>]
CaseFault == [src |-> <<<<"!">>>>, outs |-> <<"1">>]
CaseNever == [src |-> <<Marked("1"), Marked("@")>>, outs |-> <<"1", "1">>]
CaseNoSlot == [src |-> ScrUnmarked, outs |-> <<>>]
CaseBadExpect == [src |-> <<<<"1">>>>, outs |-> <<"!">>]
CaseBlockFault == [src |-> <<<<"!">>, Marked("1")>>, outs |-> <<"1">>]

SuiteCat ==
    {<<CasePass>>, <<CaseBind, CaseRead>>, <<CaseMismatch>>, <<CaseFault>>,
     <<CaseNever>>, <<CaseNoSlot>>, <<CaseBadExpect>>, <<CaseBlockFault>>}

\* The other keys of a test: 'preamble' and 'postamble' with their code
\* for 'all' and for single suites, and 'total_cases' (<<>> when the key
\* is absent, <<n>> when it is n: 0, or more than there are cases).
\* Postambles are code of the test's author that runs without a fault.
TestShapes ==
    {[preamble |-> [all |-> EmptySrc, own |-> <<>>],
      postamble |-> [all |-> <<<<"a">>>>, own |-> <<>>],
      total_cases |-> <<>>],
     [preamble |-> [all |-> <<<<"a">>>>, own |-> <<>>],
      postamble |-> [all |-> EmptySrc, own |-> <<<<<<"b">>>>>>],
      total_cases |-> <<0>>],
     [preamble |-> [all |-> EmptySrc, own |-> <<EmptySrc, <<<<"a">>>>>>],
      postamble |-> [all |-> <<<<"b">>>>, own |-> <<>>],
      total_cases |-> <<5>>]}

\* A test record
Test(suites, shape) ==
    [suites |-> suites, preamble |-> shape.preamble,
     postamble |-> shape.postamble, total_cases |-> shape.total_cases]

\* The tests that may come after the first test in the store
FollowTests ==
    {<<>>,
     <<[suites |-> <<<<CasePass>>>>,
        preamble |-> [all |-> EmptySrc, own |-> <<>>],
        postamble |-> [all |-> <<<<"a">>>>, own |-> <<>>],
        total_cases |-> <<1>>]>>,
     <<[suites |-> <<<<CaseRead>>>>,
        preamble |-> [all |-> EmptySrc, own |-> <<>>],
        postamble |-> [all |-> EmptySrc, own |-> <<>>],
        total_cases |-> <<1>>]>>}

InitTest ==
    /\ lockedDisk = <<>>
    /\ locked0 = <<>>
    /\ unlockedDisk = <<>>
    /\ NoProcess
    /\ NoSuite
    /\ NoTimed
    /\ NoMain
    /\ NoTrends
    /\ NoFrames
    /\ \E suites \in SeqsUpTo(SuiteCat, MaxSuites), shape \in TestShapes,
          rest \in FollowTests :
         tests = <<Test(suites, shape)>> \o rest
    /\ all_flag \in BOOLEAN
    /\ env \in {EmptyFrame, [x |-> "2"]}
    /\ test_idx = 1
    /\ apc = "tests"
    /\ counter = 0
    /\ passed = 0
    /\ exit_how = "none"
    /\ results = <<>>
    /\ suite_log = <<>>
    /\ post_log = <<>>
    /\ hf_log = <<>>

\* The test that is run and its suites
ThisTest == tests[test_idx]
Suites == ThisTest.suites

\* new_preamble and new_postamble of run for the suite at counter
NewPreamble ==
    Concat(ThisTest.preamble.all, Get(ThisTest.preamble.own, counter))
NewPostamble ==
    Concat(ThisTest.postamble.all, Get(ThisTest.postamble.own, counter))

\* exec(new_postamble, global_frame.copy()): the frame it was given and
\* the frame it leaves
Postamble(when) ==
    [test |-> test_idx, counter |-> counter, when |-> when,
     frame_in |-> env,
     frame_out |-> Exec(process_input(NewPostamble), env).frame]

\* Mutant: run_suite is given global_frame itself
CallerFrameShared(caller, callee) == callee

\* run_suite(new_preamble, suite, global_frame.copy(), ...): run's
\* global_frame after the call, run_suite having worked on a copy
CallerFrame(caller, callee) == caller

\* Mutant: the loop goes on with the next suite
BreakNext(n, last) == n + 1

\* break: the suite loop is left, no suite after suite n is run
Break(n, last) == last

\* How run ended for the test: ret is "True", "False" or an exception
Result(ret, printed, noted) ==
    [test |-> test_idx, passed |-> passed, ret |-> ret, printed |-> printed,
     noted |-> noted]

\* The entry of the suite that is run, in suite_log
Attempt(how) == [suite_log EXCEPT ![Len(suite_log)].how = how]

\* if 'suites' not in test: test['suites'] = []
WithSuites(test) ==
    IF "suites" \in DOMAIN test THEN test ELSE test @@ [suites |-> <<>>]

\* The hooks a test may have under 'cache': one that binds x to 1 and one
\* that counts its calls in x
CacheHooks == {"bind", "count"}

\* test['cache'](global_frame): the hook is given the shared environment
\* itself, which is glob before the call
Cache(hook, glob) ==
    IF hook = "bind" THEN [glob EXCEPT !.x = "1"]
    ELSE [glob EXCEPT !.x = IF glob.x = "unbound" THEN "1" ELSE "2"]

\* for test in tests: passed = run(test, global_frame, args.interactive),
\* up to the head of run's suite loop
BeginTest ==
    /\ apc = "tests"
    /\ test_idx <= Len(tests)
    /\ apc' = "suites"
    /\ counter' = 0
    /\ passed' = 0
    /\ tests' = [tests EXCEPT ![test_idx] = WithSuites(@)]
    /\ env' = IF "cache" \in DOMAIN ThisTest
              THEN Cache(ThisTest.cache, env)
              ELSE env
    /\ UNCHANGED <<all_flag, test_idx, exit_how, results, suite_log, post_log,
                   hf_log, unlockvars, runvars, timedvars, mainvars,
                   trendsvars, framevars>>

\* for counter, suite in enumerate(test['suites']): run_suite is called
\* with new_preamble, the suite and a copy of global_frame
BeginSuite ==
    /\ apc = "suites"
    /\ counter < Len(Suites)
    /\ apc' = "run_suite"
    /\ suite_log' = Append(suite_log, [test |-> test_idx, counter |-> counter,
                                       how |-> "running"])
    /\ rs_preamble' = NewPreamble
    /\ rs_suite' = Suites[counter + 1]
    /\ rpc' = "start"
    /\ global_frame' = env
    /\ frame' = EmptyFrame
    /\ case_idx' = 1
    /\ lineno' = 0
    /\ prompts' = 0
    /\ current' = <<>>
    /\ out_pos' = 0
    /\ log' = <<>>
    /\ UNCHANGED <<tests, all_flag, env, test_idx, counter, passed, exit_how,
                   results, post_log, hf_log, unlockvars, timedvars,
                   mainvars, trendsvars, framevars>>

\* run_suite has returned: else: passed += 1, finally: the postamble
SuitePassed ==
    /\ apc = "run_suite"
    /\ rpc = "returned"
    /\ apc' = "suites"
    /\ passed' = passed + 1
    /\ counter' = counter + 1
    /\ post_log' = Append(post_log, Postamble("finally"))
    /\ suite_log' = Attempt("passed")
    /\ env' = CallerFrame(env, global_frame)
    /\ UNCHANGED <<tests, all_flag, test_idx, exit_how, results, hf_log,
                   unlockvars, runvars, timedvars, mainvars, trendsvars,
                   framevars>>

\* run_suite has raised TestException: except TestException as e: the
\* postamble, handle_failure, the assertion and break; finally: the
\* postamble
SuiteFailed ==
    /\ apc = "run_suite"
    /\ rpc = "TestException"
    /\ LET case == rs_suite[case_idx]
           hf == handle_failure(rs_preamble, case.src, case.outs, env)
       IN  /\ hf_log' = Append(hf_log,
                 [test |-> test_idx, counter |-> counter,
                  piece |-> log[Len(log)].what,
                  cause |-> log[Len(log)].res, frame_in |-> env,
                  kind |-> hf.kind, report |-> hf.report])
           /\ post_log' = post_log \o
                 (IF hf.kind = "hung" THEN <<Postamble("except")>>
                  ELSE <<Postamble("except"), Postamble("finally")>>)
           /\ IF hf.kind = "True"
              THEN /\ apc' = "suites"
                   /\ counter' = Break(counter, Len(Suites))
                   /\ UNCHANGED <<exit_how, results>>
              ELSE IF hf.kind = "hung"
              THEN /\ apc' = "hung"
                   /\ UNCHANGED <<counter, exit_how, results>>
              ELSE LET e == IF hf.kind = "False" THEN "AssertionError"
                            ELSE hf.report
                   IN  /\ apc' = "exited"
                       /\ exit_how' = e
                       /\ results' = Append(results, Result(e, FALSE, FALSE))
                       /\ counter' = counter
    /\ suite_log' = Attempt("failed")
    /\ env' = CallerFrame(env, global_frame)
    /\ UNCHANGED <<tests, all_flag, test_idx, passed, unlockvars, runvars,
                   timedvars, mainvars, trendsvars, framevars>>

\* Another exception has left run_suite: finally: the postamble, and the
\* exception leaves run and run_all_tests
SuiteError ==
    /\ apc = "run_suite"
    /\ rpc = "error"
    /\ apc' = "exited"
    /\ exit_how' = "error"
    /\ results' = Append(results, Result("error", FALSE, FALSE))
    /\ post_log' = Append(post_log, Postamble("finally"))
    /\ suite_log' = Attempt("error")
    /\ env' = CallerFrame(env, global_frame)
    /\ UNCHANGED <<tests, all_flag, test_idx, counter, passed, hf_log,
                   unlockvars, runvars, timedvars, mainvars, trendsvars,
                   framevars>>

RECURSIVE TotalCases(_)
\* for suite in test['suites']: total_cases += len(suite)
TotalCases(suites) ==
    IF suites = <<>> THEN 0 ELSE Len(Head(suites)) + TotalCases(Tail(suites))

\* After the suite loop: 'All unlocked tests passed!', the note on locked
\* cases, return passed == len(test['suites']); then run_all_tests:
\* if not args.all and not passed: return
EndTest ==
    /\ apc = "suites"
    /\ counter >= Len(Suites)
    /\ LET ok == passed = Len(Suites)
           declared == ThisTest.total_cases
       IN  IF declared = <<>>
           THEN /\ apc' = "exited"
                /\ exit_how' = "KeyError"
                /\ results' = Append(results, Result("KeyError", ok, FALSE))
                /\ test_idx' = test_idx
           ELSE /\ results' = Append(results,
                     Result(IF ok THEN "True" ELSE "False", ok,
                            declared[1] # 0
                              /\ TotalCases(Suites) < declared[1]))
                /\ IF ~all_flag /\ ~ok
                   THEN /\ apc' = "exited"
                        /\ exit_how' = "returned"
                        /\ test_idx' = test_idx
                   ELSE /\ apc' = "tests"
                        /\ exit_how' = exit_how
                        /\ test_idx' = test_idx + 1
    /\ UNCHANGED <<tests, all_flag, env, counter, passed, suite_log, post_log,
                   hf_log, unlockvars, runvars, timedvars, mainvars,
                   trendsvars, framevars>>

\* The loop over the tests is over: the closing note is printed and
\* run_all_tests returns
EndAll ==
    /\ apc = "tests"
    /\ test_idx > Len(tests)
    /\ apc' = "exited"
    /\ exit_how' = "returned"
    /\ UNCHANGED <<tests, all_flag, env, test_idx, counter, passed, results,
                   suite_log, post_log, hf_log, unlockvars, runvars,
                   timedvars, mainvars, trendsvars, framevars>>

NextTest ==
    \/ BeginTest
    \/ BeginSuite
    \/ StartSuite
    \/ BeginCase
    \/ Line
    \/ EndCase
    \/ EndSuite
    \/ SuitePassed
    \/ SuiteFailed
    \/ SuiteError
    \/ EndTest
    \/ EndAll

SpecTest == InitTest /\ [][NextTest]_vars

\* ---------------------------------------------------------- run, twice

\* The records run is called on twice: the tests of the store, the same
\* with a hook under 'cache', and a record without the key 'suites'
TwiceTests ==
    {Test(suites, shape) :
        suites \in SeqsUpTo(SuiteCat, MaxSuites), shape \in TestShapes}
    \cup {Test(<<suite>>, shape) @@ [cache |-> hook] :
             suite \in SuiteCat, shape \in TestShapes, hook \in CacheHooks}
    \cup {[preamble |-> shape.preamble, postamble |-> shape.postamble,
           total_cases |-> shape.total_cases] : shape \in TestShapes}

\* A caller with one test record and one environment
InitTwice ==
    /\ lockedDisk = <<>>
    /\ locked0 = <<>>
    /\ unlockedDisk = <<>>
    /\ NoProcess
    /\ NoSuite
    /\ NoTimed
    /\ NoMain
    /\ NoTrends
    /\ NoFrames
    /\ \E test \in TwiceTests : tests = <<test>>
    /\ all_flag = TRUE
    /\ env \in {EmptyFrame, [x |-> "2"]}
    /\ test_idx = 1
    /\ apc = "tests"
    /\ counter = 0
    /\ passed = 0
    /\ exit_how = "none"
    /\ results = <<>>
    /\ suite_log = <<>>
    /\ post_log = <<>>
    /\ hf_log = <<>>

\* run has returned and the caller calls it a second time, on the same
\* record and the same environment
RunAgain ==
    /\ apc = "tests"
    /\ test_idx > Len(tests)
    /\ Len(results) = 1
    /\ test_idx' = 1
    /\ UNCHANGED <<tests, all_flag, env, apc, counter, passed, exit_how,
                   results, suite_log, post_log, hf_log, unlockvars, runvars,
                   timedvars, mainvars, trendsvars, framevars>>

NextTwice ==
    \/ BeginTest
    \/ BeginSuite
    \/ StartSuite
    \/ BeginCase
    \/ Line
    \/ EndCase
    \/ EndSuite
    \/ SuitePassed
    \/ SuiteFailed
    \/ SuiteError
    \/ EndTest
    \/ EndAll
    \/ RunAgain

SpecTwice == InitTwice /\ [][NextTwice]_vars

\* ------------------------------------------------------ the command line

\* The names a test may be asked for by: the names of the tests of the
\* stores, and a name that no test has
Asked == {"q1", "q2", "two", "zz"}

\* Mutant: the first test of the store stands in for a test that is not
\* found
get_testOrFirst(ts, question) ==
    LET found == {k \in DOMAIN ts :
                     /\ "name" \in DOMAIN ts[k]
                     /\ \E i \in DOMAIN ts[k].name : ts[k].name[i] = question}
    IN  IF found = {} THEN <<ts[1]>>
        ELSE <<ts[CHOOSE k \in found : \A j \in found : k <= j]>>

\* get_test(tests, question): the first test that has question among its
\* names, as a list of one; <<>> is None.  A name that is a str is
\* written as the tuple of one name that get_test makes of it.
get_test(ts, question) ==
    LET found == {k \in DOMAIN ts :
                     /\ "name" \in DOMAIN ts[k]
                     /\ \E i \in DOMAIN ts[k].name : ts[k].name[i] = question}
    IN  IF found = {} THEN <<>>
        ELSE <<ts[CHOOSE k \in found : \A j \in found : k <= j]>>

\* locked_tests['tests'] in unlock mode: the test whose suites the locked
\* store of the model holds
LockedTests == <<[name |-> <<"q1">>, suites |-> lockedDisk]>>

\* unlocked_tests['tests'] in run mode: a first test of no suite or one,
\* and a second test with two names
StoreTests ==
    {<<Test(suites, shape) @@ [name |-> <<"q1">>],
       follow @@ [name |-> <<"q2", "two">>]>> :
        suites \in {<<>>} \cup {<<suite>> : suite \in SuiteCat},
        shape \in TestShapes,
        follow \in {rest[1] : rest \in FollowTests \ {<<>>}}}

\* The exit status of the process: exit(n), 0 when run_all_tests returns,
\* 1 when an exception is not caught
ExitStatus(how) == IF how \in {"returned", "exit(0)"} THEN 0 ELSE 1

\* python3 autograder.py -u name, or -q name, or without a name
InitMain ==
    /\ NoProcess
    /\ NoSuite
    /\ NoTimed
    /\ NoTrends
    /\ NoFrames
    /\ code = <<>>
    /\ env = EmptyFrame
    /\ test_idx = 0
    /\ apc = "none"
    /\ counter = 0
    /\ passed = 0
    /\ exit_how = "none"
    /\ results = <<>>
    /\ suite_log = <<>>
    /\ post_log = <<>>
    /\ hf_log = <<>>
    /\ \/ /\ args \in [mode : {"unlock"}, name : Asked]
          /\ all_flag = FALSE
          /\ tests = <<>>
          /\ \E sizes \in SeqsUpTo(0..MaxCases, MaxSuites),
                rot \in 0..Len(CaseInputs) - 1 :
               \E pre \in SeqsUpTo(BOOLEAN, Len(sizes)) :
                 /\ lockedDisk = LockedStore(sizes, rot)
                 /\ locked0 = LockedStore(sizes, rot)
                 /\ unlockedDisk = UnlockedStore(pre)
       \/ /\ args \in [mode : {"run"}, name : Asked \cup {"none"}]
          /\ all_flag \in BOOLEAN
          /\ tests \in StoreTests
          /\ lockedDisk = <<>>
          /\ locked0 = <<>>
          /\ unlockedDisk = <<>>

\* The process has done nothing yet but load the stores
Loaded == pc = "idle" /\ apc = "none"

\* new = check_for_updates(...); if new: exit(0): another version is
\* there, and the process exits whether the student downloads it or not
UpdateExit ==
    /\ Loaded
    /\ apc' = "exited"
    /\ exit_how' = "exit(0)"
    /\ UNCHANGED <<tests, all_flag, env, test_idx, counter, passed, results,
                   suite_log, post_log, hf_log, unlockvars, runvars,
                   timedvars, mainvars, trendsvars, framevars>>

\* -u name with a test of that name: unlock up to its first prompt
UnlockNamed ==
    /\ Loaded
    /\ args.mode = "unlock"
    /\ get_test(LockedTests, args.name) # <<>>
    /\ StartUnlock

\* -u name without a test of that name: locked is None and get_name(locked)
\* raises TypeError, which nothing catches
UnlockMissing ==
    /\ Loaded
    /\ args.mode = "unlock"
    /\ get_test(LockedTests, args.name) = <<>>
    /\ mode' = "unlock"
    /\ pc' = "exited"
    /\ outcome' = "TypeError"
    /\ UNCHANGED <<lockedDisk, unlockedDisk, locked, unlocked, suite_num,
                   line_idx, answers, output_num, locked0, lastInput, wrong,
                   accepted, runvars, timedvars, testvars, mainvars,
                   trendsvars, framevars>>

\* Without -u: tests = [get_test(...)] for -q name, exit(1) when there is
\* no such test; all the tests of the store without -q
Select ==
    /\ Loaded
    /\ args.mode = "run"
    /\ mode' = "run"
    /\ IF args.name # "none" /\ get_test(tests, args.name) = <<>>
       THEN /\ apc' = "exited"
            /\ exit_how' = "exit(1)"
            /\ UNCHANGED <<tests, test_idx>>
       ELSE /\ apc' = "tests"
            /\ test_idx' = 1
            /\ exit_how' = exit_how
            /\ tests' = IF args.name # "none"
                        THEN get_test(tests, args.name)
                        ELSE tests
    /\ UNCHANGED <<lockedDisk, unlockedDisk, pc, outcome, locked, unlocked,
                   suite_num, line_idx, answers, output_num, locked0,
                   lastInput, wrong, accepted, all_flag, env, counter, passed,
                   results, suite_log, post_log, hf_log, runvars, timedvars,
                   mainvars, trendsvars, framevars>>

\* The process is over: its exit status
ProcessExit ==
    /\ code = <<>>
    /\ pc = "exited" \/ apc = "exited"
    /\ code' = <<ExitStatus(IF pc = "exited" THEN outcome ELSE exit_how)>>
    /\ UNCHANGED <<args, unlockvars, runvars, timedvars, testvars,
                   trendsvars, framevars>>

NextMain ==
    \/ UpdateExit
    \/ UnlockNamed
    \/ UnlockMissing
    \/ \E x \in Plain \cup ExitWords : Answer(x)
    \/ \E e \in Interrupts : Interrupt(e)
    \/ Select
    \/ BeginTest
    \/ BeginSuite
    \/ StartSuite
    \/ BeginCase
    \/ Line
    \/ EndCase
    \/ EndSuite
    \/ SuitePassed
    \/ SuiteFailed
    \/ SuiteError
    \/ EndTest
    \/ EndAll
    \/ ProcessExit

SpecMain == InitMain /\ [][NextMain]_vars

\* ------------------------------------------ the dictionaries of the threads

\* run's global_frame, the shared environment: the first dictionary
Shared == 1

\* Mutant: no copy is made, the dictionary itself is passed on
CopyAlias(dict, made) == dict

\* dict.copy(): a dictionary of its own, the next after the made ones
Copy(dict, made) == made + 1

\* The cases that are run, each as the computations of its evaluation
\* steps; the expected output of every step is 1
StepCases == SeqsUpTo(Computations, MaxLines) \ {<<>>}

\* The workers that evaluate in a dictionary of ds, or did when timed
\* raised TimeoutError for them
Workers(ds) ==
    {k \in DOMAIN submissions :
        /\ call_frames[k] \in ds
        /\ \/ submissions[k].pc = "running"
           \/ k \in DOMAIN outcomes /\ outcomes[k].kind = "TimeoutError"}

\* The controller reads or writes the dictionaries ds
Use(ds) ==
    clashes' = clashes \cup
                 {[dict |-> call_frames[k], call |-> k] : k \in Workers(ds)}

\* run has been called with the shared environment
InitFrames ==
    /\ lockedDisk = <<>>
    /\ locked0 = <<>>
    /\ unlockedDisk = <<>>
    /\ NoProcess
    /\ NoSuite
    /\ NoTest
    /\ NoMain
    /\ NoTrends
    /\ fns = <<>>
    /\ timeouts = <<>>
    /\ submissions = <<>>
    /\ tpc = "call"
    /\ outcomes = <<>>
    /\ waited = <<>>
    /\ reads = {}
    /\ cpc = "suite"
    /\ dicts = Shared
    /\ suite_dict = 0
    /\ case_dict = 0
    /\ replay_dict = 0
    /\ steps = <<>>
    /\ step_idx = 0
    /\ call_frames = <<>>
    /\ clashes = {}

\* run: run_suite(new_preamble, suite, global_frame.copy(), ...), and
\* run_suite: exec(new_preamble, global_frame)
EnterSuite ==
    /\ cpc = "suite"
    /\ suite_dict' = Copy(Shared, dicts)
    /\ dicts' = dicts + 1
    /\ Use({Shared, suite_dict'})
    /\ cpc' = "case"
    /\ UNCHANGED <<case_dict, replay_dict, steps, step_idx, call_frames,
                   unlockvars, runvars, timedvars, testvars, mainvars,
                   trendsvars>>

\* run_suite: frame = global_frame.copy() for the next case of the suite,
\* the case being case
EnterCase(case) ==
    /\ cpc = "case"
    /\ Len(fns) < MaxCalls
    /\ case_dict' = Copy(suite_dict, dicts)
    /\ dicts' = dicts + 1
    /\ Use({suite_dict, case_dict'})
    /\ steps' = case
    /\ step_idx' = 1
    /\ cpc' = "step"
    /\ UNCHANGED <<suite_dict, replay_dict, call_frames, unlockvars,
                   runvars, timedvars, testvars, mainvars, trendsvars>>

\* run_suite at a step: exec(current, frame), expect = eval(output, frame)
\* and the call timed(eval, (line.lstrip('$ '), frame))
CallStep ==
    /\ cpc = "step"
    /\ Len(fns) < MaxCalls
    /\ Use({case_dict})
    /\ fns' = Append(fns, steps[step_idx])
    /\ timeouts' = Append(timeouts, TIMEOUT)
    /\ call_frames' = Append(call_frames, case_dict)
    /\ cpc' = "timed"
    /\ UNCHANGED <<dicts, suite_dict, case_dict, replay_dict, steps,
                   step_idx, submissions, tpc, outcomes, waited, reads,
                   unlockvars, runvars, testvars, mainvars, trendsvars>>

\* The last call of timed is over
Called == tpc = "call" /\ Len(outcomes) = Len(fns)

\* The last call of timed has returned the expected value
AsExpected ==
    /\ outcomes[Len(outcomes)].kind = "returned"
    /\ outcomes[Len(outcomes)].val = "1"

\* run_suite after timed: the next step, the next case, or TestException
\* for a fault, a timeout or another value than the expected one
AfterCall ==
    /\ cpc = "timed"
    /\ Called
    /\ IF ~AsExpected THEN cpc' = "except" /\ step_idx' = step_idx
       ELSE IF step_idx < Len(steps)
       THEN cpc' = "step" /\ step_idx' = step_idx + 1
       ELSE cpc' = "case" /\ step_idx' = step_idx
    /\ UNCHANGED <<dicts, suite_dict, case_dict, replay_dict, steps,
                   call_frames, clashes, unlockvars, runvars, timedvars,
                   testvars, mainvars, trendsvars>>

\* run_suite returns; run: finally: exec(new_postamble,
\* global_frame.copy())
LeaveSuite ==
    /\ cpc = "case"
    /\ dicts' = dicts + 1
    /\ Use({Shared, Copy(Shared, dicts)})
    /\ cpc' = "done"
    /\ UNCHANGED <<suite_dict, case_dict, replay_dict, steps, step_idx,
                   call_frames, unlockvars, runvars, timedvars, testvars,
                   mainvars, trendsvars>>

\* run: except TestException: exec(new_postamble, global_frame.copy()) and
\* handle_failure(e, counter + 1, global_frame.copy(), interactive), up
\* to its first step: the console pushes the preamble into its frame
Except ==
    /\ cpc = "except"
    /\ replay_dict' = Copy(Shared, dicts + 1)
    /\ dicts' = dicts + 2
    /\ Use({Shared, Copy(Shared, dicts), replay_dict'})
    /\ step_idx' = 1
    /\ cpc' = "replay"
    /\ UNCHANGED <<suite_dict, case_dict, steps, call_frames, unlockvars,
                   runvars, timedvars, testvars, mainvars, trendsvars>>

\* handle_failure at a step: expect = eval(next(outputs),
\* global_frame.copy()) and the call timed(eval, (line,
\* global_frame.copy()))
CallReplay ==
    /\ cpc = "replay"
    /\ Len(fns) < MaxCalls
    /\ dicts' = dicts + 2
    /\ Use({replay_dict, Copy(replay_dict, dicts),
            Copy(replay_dict, dicts + 1)})
    /\ fns' = Append(fns, steps[step_idx])
    /\ timeouts' = Append(timeouts, TIMEOUT)
    /\ call_frames' = Append(call_frames, Copy(replay_dict, dicts + 1))
    /\ cpc' = "replayed"
    /\ UNCHANGED <<suite_dict, case_dict, replay_dict, steps, step_idx,
                   submissions, tpc, outcomes, waited, reads, unlockvars,
                   runvars, testvars, mainvars, trendsvars>>

\* handle_failure after timed: the next step when the value is the
\* expected one; else it returns, after console.push(line) when the
\* expression raised; then run: finally: exec(new_postamble,
\* global_frame.copy())
AfterReplay ==
    /\ cpc = "replayed"
    /\ Called
    /\ IF AsExpected /\ step_idx < Len(steps)
       THEN /\ cpc' = "replay"
            /\ step_idx' = step_idx + 1
            /\ UNCHANGED <<dicts, clashes>>
       ELSE /\ cpc' = "done"
            /\ step_idx' = step_idx
            /\ dicts' = dicts + 1
            /\ Use((IF outcomes[Len(outcomes)].kind = "raised"
                     THEN {replay_dict} ELSE {})
                    \cup {Shared, Copy(Shared, dicts)})
    /\ UNCHANGED <<suite_dict, case_dict, replay_dict, steps, call_frames,
                   unlockvars, runvars, timedvars, testvars, mainvars,
                   trendsvars>>

NextFrames ==
    \/ EnterSuite
    \/ \E case \in StepCases : EnterCase(case)
    \/ CallStep
    \/ AfterCall
    \/ LeaveSuite
    \/ Except
    \/ CallReplay
    \/ AfterReplay
    \/ Start
    \/ JoinEnds
    \/ JoinTimesOut
    \/ IsAlive
    \/ CheckError
    \/ Return
    \/ \E k \in 1..MaxCalls : Run(k)
    \/ \E k \in 1..MaxCalls : ThreadEnds(k)

SpecFrames == InitFrames /\ [][NextFrames]_vars

\* --------------------------------------------------------------- trends.py

\* Positions are points of a line, 0..MaxPos; a tweet is loaded at most
\* MaxTweets at a time, and swap_tweet_representation is called at most
\* MaxSwaps times
MaxPos == 4
MaxTweets == 2
MaxSwaps == 3

\* The states in the order in which states_centers is iterated, and
\* states_centers: the center of each state
StateNames == <<"CA", "NY", "TX">>
states_centers == [CA |-> 1, NY |-> 4, TX |-> 2]

\* geo_distance(position, center): the distance of two points of the line
geo_distance(p, q) == IF p >= q THEN p - q ELSE q - p

\* make(text, time, lat, lon) for make one of make_tweet and
\* make_tweet_fn: a dictionary or a function; at is the position
Make(make, at) ==
    [rep |-> IF make = "make_tweet" THEN "dict" ELSE "fn", at |-> at]

\* location(tweet) for location one of tweet_location and
\* tweet_location_fn: <<position>>, or <<>> for the TypeError of a
\* dictionary that is called or a function that is subscripted
Location(location, tweet) ==
    IF location = (IF tweet.rep = "dict" THEN "tweet_location"
                   ELSE "tweet_location_fn")
    THEN <<tweet.at>>
    ELSE <<>>

\* Mutant: the default list is left as it is
swap_keep_other(bound, oth) == [bound |-> oth, other |-> oth]

\* swap_to = tuple(other); other[:] = [make_tweet, ...]; make_tweet, ... =
\* swap_to, for bound the functions the four names are bound to
swap(bound, oth) == [bound |-> oth, other |-> bound]

RECURSIVE Closest(_, _, _, _)
\* closest, state_name = 0, ''; for state in states_centers: ..., from the
\* k-th state on: the state_name the loop ends with
Closest(at, k, closest, state_name) ==
    IF k > Len(StateNames) THEN state_name
    ELSE LET state == StateNames[k]
             distance == geo_distance(at, states_centers[state])
         IN  IF closest = 0 \/ distance < closest
             THEN Closest(at, k + 1, distance, state)
             ELSE Closest(at, k + 1, closest, state_name)

\* tweets_by_state[state_name].append(tweet), or the new key with [tweet];
\* a tweet in a list is written as its position in tweets
Put(by_state, state_name, i) ==
    [state \in DOMAIN by_state \cup {state_name} |->
        IF state \in DOMAIN by_state
        THEN (IF state = state_name THEN Append(by_state[state], i)
              ELSE by_state[state])
        ELSE <<i>>]

RECURSIVE Group(_, _, _, _)
\* for tweet in tweets, from the i-th tweet on
Group(ts, i, by_state, location) ==
    IF i > Len(ts) THEN [kind |-> "dict", dict |-> by_state]
    ELSE LET at == Location(location, ts[i])
         IN  IF at = <<>> THEN [kind |-> "TypeError", dict |-> <<>>]
             ELSE Group(ts, i + 1,
                        Put(by_state, Closest(at[1], 1, 0, ""), i),
                        location)

\* group_tweets_by_state(tweets), tweet_location being bound to location
group_tweets_by_state(ts, location) == Group(ts, 1, <<>>, location)

InitTrends ==
    /\ lockedDisk = <<>>
    /\ locked0 = <<>>
    /\ unlockedDisk = <<>>
    /\ NoProcess
    /\ NoSuite
    /\ NoTimed
    /\ NoTest
    /\ NoMain
    /\ NoTrends
    /\ NoFrames

\* swap_tweet_representation(): a call with the default argument
SwapRepresentation ==
    /\ swaps < MaxSwaps
    /\ LET to == swap(<<make_tweet, tweet_text, tweet_time, tweet_location>>,
                      other)
       IN  /\ make_tweet' = to.bound[1]
           /\ tweet_text' = to.bound[2]
           /\ tweet_time' = to.bound[3]
           /\ tweet_location' = to.bound[4]
           /\ other' = to.other
    /\ swaps' = swaps + 1
    /\ UNCHANGED <<tweets, tweets_by_state, unlockvars, runvars, timedvars,
                   testvars, mainvars, framevars>>

\* tweets = load_tweets(make_tweet, term, file_name): tweets at the
\* positions ats, made by the function make_tweet is bound to
LoadTweets(ats) ==
    /\ tweets' = [i \in DOMAIN ats |-> Make(make_tweet, ats[i])]
    /\ tweets_by_state' = [kind |-> "none", dict |-> <<>>]
    /\ UNCHANGED <<make_tweet, tweet_text, tweet_time, tweet_location, other,
                   swaps, unlockvars, runvars, timedvars, testvars, mainvars,
                   framevars>>

\* tweets_by_state = group_tweets_by_state(tweets)
GroupTweets ==
    /\ tweets_by_state' = group_tweets_by_state(tweets, tweet_location)
    /\ UNCHANGED <<make_tweet, tweet_text, tweet_time, tweet_location, other,
                   swaps, tweets, unlockvars, runvars, timedvars, testvars,
                   mainvars, framevars>>

NextTrends ==
    \/ SwapRepresentation
    \/ \E ats \in SeqsUpTo(0..MaxPos, MaxTweets) : LoadTweets(ats)
    \/ GroupTweets

SpecTrends == InitTrends /\ [][NextTrends]_vars

\* ------------------------------------------------------- the Unlock Gate

\* The locked case with identity id, as distributed
Orig(id) == CHOOSE c \in AllCases(locked0) : c.id = id

\* The cases of a store, suite after suite
RECURSIVE Flat(_)
Flat(store) == IF store = <<>> THEN <<>> ELSE Head(store) \o Flat(Tail(store))

\* Every suite of U is the front of the same suite of V
PrefixStore(U, V) ==
    /\ Len(U) <= Len(V)
    /\ \A s \in DOMAIN U :
          /\ Len(U[s]) <= Len(V[s])
          /\ SubSeq(V[s], 1, Len(U[s])) = U[s]

AbortInputs == Interrupts \cup ExitWords

\* The case unlock is asking about, and whether x is a wrong answer there
AskedCase == LET suite == locked[suite_num + 1] IN suite[NextCase(suite)]
WrongHere(x) ==
    /\ output_num < Len(AskedCase.outs)
    /\ hash_fn(x) # AskedCase.outs[output_num + 1]

Ordered(L, U) ==
    /\ \A l \in AllCases(L), u \in AllCases(U) :
          l.id[1] = u.id[1] => u.id[2] < l.id[2]
    /\ LET f == Flat(U)
       IN  \A i, j \in DOMAIN f :
             (i < j /\ f[i].id[1] = f[j].id[1]) => f[i].id[2] < f[j].id[2]

\* C1: through any sequence of sessions, the cases of a locked suite enter
\* the unlocked store in the order they had in that suite: no case is
\* unlocked, in the running process or on disk, while a case that came
\* before it in the same locked suite is still locked.
C1_UnlockedInOrder ==
    /\ Ordered(lockedDisk, unlockedDisk)
    /\ (mode = "unlock" => Ordered(locked, unlocked))

\* C1 witness: a session was aborted with the first case of a suite
\* unlocked and the second one still locked
C1_Witness ==
    /\ pc = "exited" /\ lastInput \in AbortInputs
    /\ \E u \in AllCases(unlockedDisk), l \in AllCases(lockedDisk) :
          u.id[1] = l.id[1] /\ u.id[2] = 1 /\ l.id[2] = 2

\* C2 (the claim as stated): a case is in the unlocked store only if every
\* slot of the case, in order, was answered with a plaintext whose digest
\* is the stored digest of the slot; and unlock asks about slot k + 1 only
\* after slot k was answered correctly.
C2_EverySlotAnswered ==
    /\ \A u \in AllCases(unlocked) :
          u.id \in Ids(locked0) =>
            \A k \in 1..Len(Orig(u.id).outs) :
              \E r \in accepted :
                /\ r.id = u.id /\ r.slot = k
                /\ hash_fn(r.text) = Orig(u.id).outs[k]
    /\ pc = "prompt" =>
          \A k \in 1..output_num :
            \E r \in accepted : r.id = AskedCase.id /\ r.slot = k

\* C3: a case that unlock has migrated has the input script of the locked
\* case, its expected outputs are the accepted plaintext answers in slot
\* order, and it is no longer in the locked suite.
C3_MigratedCase ==
    /\ \A u \in AllCases(unlocked) :
          u.id \in Ids(locked0) =>
            /\ u.src = Orig(u.id).src
            /\ mode = "unlock" => u.id \notin Ids(locked)
            /\ Len(u.outs) = Cardinality({r \in accepted : r.id = u.id})
            /\ \A k \in DOMAIN u.outs :
                  [id |-> u.id, slot |-> k, text |-> u.outs[k]] \in accepted
    /\ Ids(unlockedDisk) \cap Ids(lockedDisk) = {}

\* C3 witness: a case of two slots has been migrated
C3_Witness ==
    \E u \in AllCases(unlocked) :
        u.id \in Ids(locked0) /\ u.outs = <<"1", "2">>

\* C4: an answer whose digest differs from the stored digest changes
\* nothing: the stores, the case and slot asked about and the answers
\* collected are as before, unlock asks again, and the process goes on.
C4_WrongAnswerChangesNothing ==
    [][(pc = "prompt" /\ lastInput' \in Plain /\ WrongHere(lastInput'))
         => /\ pc' = "prompt"
            /\ outcome' = "none"
            /\ UNCHANGED <<lockedDisk, unlockedDisk, locked, unlocked, mode,
                           suite_num, line_idx, answers, output_num>>]_vars

\* C4 witness: MaxWrong wrong answers in a row, and unlock asks again
C4_Witness == pc = "prompt" /\ wrong = MaxWrong /\ lastInput \in Plain

\* C5: an abort at a prompt (end of input, interrupt, exit() or quit())
\* makes unlock return normally: the cases unlocked so far are in the
\* unlocked store, the case asked about and the later ones are still
\* locked with their digests, and both stores are persisted.
C5_AbortIsClean ==
    [][(pc = "prompt" /\ lastInput' \in AbortInputs)
         => /\ pc' = "exited"
            /\ outcome' = "returned"
            /\ locked' = locked
            /\ unlocked' = unlocked
            /\ lockedDisk' = locked
            /\ unlockedDisk' = unlocked
            /\ AskedCase \in AllCases(lockedDisk')
            /\ \A c \in AllCases(lockedDisk') : c = Orig(c.id)]_vars

\* C5 witness: an abort at the second slot of a case, the first slot
\* answered and an earlier case unlocked in the same session
C5_Witness ==
    /\ pc = "exited" /\ lastInput \in AbortInputs
    /\ answers # <<>>
    /\ \E u \in AllCases(unlockedDisk) : u.id \in Ids(locked0)

C7_EndsFullyUnlocked ==
    (mode = "unlock" /\ pc = "exited" /\ lastInput \notin AbortInputs)
      => /\ outcome = "returned"
         /\ \A s \in DOMAIN locked : locked[s] = <<>>
         /\ Ids(locked0) \subseteq Ids(unlocked)

\* C8 (the claim as stated): every case that unlock has put in the
\* unlocked store has as many expected outputs as run_suite performs
\* evaluation steps on its input script.
C8_OutputsMatchSteps ==
    \A u \in AllCases(unlocked) \cup AllCases(unlockedDisk) :
        u.id \in Ids(locked0) => Len(u.outs) = RunSteps(u.src)

\* ------------------------------------------------------- the Case Runner

\* The first case of the suite, its lines, and the line of its only step
\* when it has one step: the marked line, or the last line
FirstCase == rs_suite[1]
FirstLines == process_input(FirstCase.src)
OnlyStep ==
    IF \E n \in DOMAIN FirstLines : StartsWith(FirstLines[n], <<DOLLAR, SP>>)
    THEN CHOOSE n \in DOMAIN FirstLines :
           StartsWith(FirstLines[n], <<DOLLAR, SP>>)
    ELSE Len(FirstLines)

\* The frame in which the only step of the first case is evaluated, the
\* value of its expression and the value of its expected output
FirstBlock == Exec(SubSeq(FirstLines, 1, OnlyStep - 1), EmptyFrame)
FirstActual ==
    Eval(LStripChars(FirstLines[OnlyStep], {DOLLAR, SP}), FirstBlock.frame)
FirstExpect == Eval(<<FirstCase.outs[1]>>, FirstBlock.frame)

\* The first case has one evaluation step, the preamble is empty, and the
\* expression and the expected output both have a value
OneStepWithValues ==
    /\ rpc # "none"
    /\ rs_preamble = <<<<>>>>
    /\ RunSteps(FirstCase.src) = 1
    /\ FirstBlock.kind = "ok"
    /\ FirstActual.kind = "value"
    /\ FirstExpect.kind = "value"

\* run_suite is done with the first case
FirstCaseOver ==
    case_idx > 1 \/ rpc \in {"returned", "TestException", "error", "hung"}

\* C9: a case of one evaluation step, run after an empty preamble, passes
\* when the value of its expression equals the value of its expected
\* output, and otherwise run_suite raises TestException for the mismatch.
C9_SingleStepCase ==
    (OneStepWithValues /\ FirstCaseOver)
      => IF FirstActual.val = FirstExpect.val
         THEN case_idx > 1
         ELSE /\ rpc = "TestException"
              /\ case_idx = 1
              /\ log[Len(log)].res = "mismatch"

\* C9 witness: such a case, its step on the line after a statement line,
\* has passed
C9_Witness ==
    /\ OneStepWithValues
    /\ case_idx > 1
    /\ OnlyStep = 2
    /\ FirstActual.val = FirstExpect.val

\* C10: when a step fails (its statement block faults, its expression
\* faults or times out, or its value is not the expected one) run_suite
\* raises TestException there: the failed piece is the last piece that is
\* run, of this case or of any other.
C10_FailureStopsSuite ==
    \A j \in DOMAIN log :
        (log[j].what \in {"block", "expr"}
           /\ log[j].res \in {"fault", "timeout", "mismatch"})
          => /\ j = Len(log)
             /\ rpc = "TestException"
             /\ case_idx = log[j].case
             /\ lineno = log[j].line

\* C10 witness: the first step of a case of two steps has a value that is
\* not the expected one, and another case follows in the suite
C10_Witness ==
    /\ rpc = "TestException"
    /\ log[Len(log)].res = "mismatch"
    /\ prompts = 1
    /\ RunSteps(rs_suite[case_idx].src) = 2
    /\ case_idx < Len(rs_suite)

\* ----------------------------------------------------------------- timed

\* C11 (the claim as stated): a call of timed ends in one of three ways,
\* decided when the controller stops waiting: the worker had finished
\* normally and timed returns its result; the worker had ended by raising
\* and timed raises what it raised; the worker was still running and timed
\* raises TimeoutError carrying timeout.
C11_TimedOutcome ==
    \A k \in DOMAIN outcomes :
        IF waited[k]
        THEN outcomes[k] = TimeoutError(timeouts[k])
        ELSE /\ fns[k].kind = "value"
                  => outcomes[k] = [kind |-> "returned", val |-> fns[k].val]
             /\ fns[k].kind \in {"fault", "exit"}
                  => outcomes[k] = [kind |-> "raised", val |-> fns[k].val]

\* How call k can end when only its own computation and its own worker
\* count
OwnOutcomes(k) ==
    {TimeoutError(timeouts[k])}
      \cup (IF fns[k].kind = "value"
            THEN {[kind |-> "returned", val |-> fns[k].val]}
            ELSE IF fns[k].kind = "fault"
            THEN {[kind |-> "raised", val |-> fns[k].val]}
            ELSE IF fns[k].kind = "exit"
            THEN {[kind |-> "returned", val |-> "None"]}
            ELSE {})

\* C13: once timed has raised TimeoutError for a submission, the
\* controller never reads its result or error field, and every call ends
\* as its own computation makes it end, whatever the abandoned workers of
\* earlier calls do in the meantime.
C13_AbandonedWorkerUnused ==
    /\ \A r \in reads : ~r.abandoned
    /\ \A k \in DOMAIN outcomes : outcomes[k] \in OwnOutcomes(k)

\* C13 witness: the first call timed out, its worker stored a result and
\* ended while the second call was under way, and the second call raised
\* the fault of its own computation
C13_Witness ==
    /\ Len(outcomes) = 2
    /\ outcomes[1].kind = "TimeoutError"
    /\ submissions[1].pc = "ended" /\ submissions[1].result = "1"
    /\ outcomes[2].kind = "raised"
    /\ Read(1, "result") \notin reads

\* ------------------------------------------------- the Suite Orchestrator

\* The positions in a log of the entries for suite n of test t
Of(lg, t, n) == {j \in DOMAIN lg : lg[j].test = t /\ lg[j].counter = n}

\* The faults of a case (of its statement block or of its expression), as
\* the causes of a TestException
CaseFaults == {"fault", "timeout"}

\* C12 (the claim as stated): when the expression of a step does not
\* return, run_suite does not hang but raises TestException for the
\* timeout, handle_failure reports a timeout, and run returns False for
\* the test.
C12_TimeoutFailsTest ==
    /\ (log # <<>> /\ log[Len(log)].res = "timeout") => rpc = "TestException"
    /\ \A j \in DOMAIN hf_log :
          hf_log[j].cause = "timeout"
            => /\ hf_log[j].kind = "True"
               /\ hf_log[j].report = "timeout"
               /\ hf_log[j].test \in DOMAIN results
                    => results[hf_log[j].test].ret = "False"

\* C14 (the claim as stated): for every suite that run has attempted,
\* passed or failed, the postamble was executed exactly once, in a copy of
\* the shared environment.
C14_PostambleOnce ==
    \A i \in DOMAIN suite_log :
        suite_log[i].how # "running"
          => /\ Cardinality(Of(post_log, suite_log[i].test,
                               suite_log[i].counter)) = 1
             /\ \A j \in Of(post_log, suite_log[i].test, suite_log[i].counter) :
                   post_log[j].frame_in = env

C16_ContinueOnFailure ==
    /\ ~all_flag
         => \A k \in DOMAIN results :
               results[k].ret # "True"
                 => /\ test_idx = k
                    /\ \A i \in DOMAIN suite_log : suite_log[i].test <= k
    /\ \A k \in DOMAIN results : results[k].test = k
    /\ (all_flag /\ apc = "exited") => Len(results) = Len(tests)

\* C17 (the claim as stated): run returns True exactly when every suite
\* of the test passed; a test with no suites returns True; and 'All
\* unlocked tests passed!' is printed exactly when run returns True.
C17_TrueIffAllPassed ==
    \A k \in DOMAIN results :
        LET r == results[k]
            n == Len(tests[k].suites)
        IN  /\ r.ret = "True" <=> r.passed = n
            /\ n = 0 => r.ret = "True"
            /\ r.printed <=> r.ret = "True"

\* C18 (the claim as stated): a fault in a case (in a statement block, in
\* an expected output, in the expression, a timeout, a missing expected
\* output) becomes a TestException that run handles: no exception leaves
\* run_suite or run for it, and run returns False for the test.
C18_FaultsAreHandled ==
    /\ rpc # "error"
    /\ \A j \in DOMAIN hf_log :
          hf_log[j].cause \in CaseFaults
            => /\ hf_log[j].kind = "True"
               /\ hf_log[j].test \in DOMAIN results
                    => results[hf_log[j].test].ret = "False"

\* run_suite and run work on copies: the frame of a suite starts as the
\* shared environment, the cases start in the frame the preamble has
\* left, and postambles and handle_failure are given the shared
\* environment
Fresh ==
    /\ rpc = "start" => global_frame = env
    /\ rpc \in {"case", "line"}
         => global_frame = Exec(process_input(rs_preamble), env).frame
    /\ (rpc = "line" /\ lineno = 1) => frame = global_frame
    /\ \A j \in DOMAIN post_log : post_log[j].frame_in = env
    /\ \A j \in DOMAIN hf_log : hf_log[j].frame_in = env

\* C19: run and run_suite never bind, unbind or rebind a name of the
\* shared environment (tests without a 'cache' hook); every case starts
\* in a copy of the frame the preamble has left, so what a case binds is
\* seen by no later case, no other suite, no postamble and no other test.
C19_EnvironmentUntouched == [][env' = env /\ Fresh']_vars

\* C19 witness: a case of the first test has bound x, the case after it
\* did not see x and failed, the postamble has bound x as well, and a
\* suite of the second test is under way
C19_Witness ==
    /\ test_idx = 2 /\ apc = "run_suite" /\ rpc = "line"
    /\ tests[1].suites # <<>>
    /\ tests[1].suites[1] = <<CaseBind, CaseRead>>
    /\ hf_log # <<>> /\ hf_log[1].report = "fault"
    /\ post_log # <<>> /\ post_log[1].frame_out # env
    /\ env = EmptyFrame

\* C20 (the claim as stated): the cases of a suite share one frame: a
\* case after the first starts in the frame as the case before it has
\* left it.
C20_CasesShareFrame ==
    [][(rpc = "case" /\ rpc' = "line" /\ case_idx > 1) => frame' = frame]_vars

\* C20 as amended: every case of a suite starts in a copy of the frame
\* the preamble has left: the names the preamble bound are there, the
\* names an earlier case bound are not.
C20_CasesStartAfresh ==
    (rpc = "line" /\ lineno = 1)
      => frame = Exec(process_input(rs_preamble), EmptyFrame).frame

\* C20 witness: the first case bound x and passed, the preamble is empty,
\* and the second case starts with x unbound
C20_Witness ==
    /\ rpc = "line" /\ lineno = 1 /\ case_idx = 2
    /\ rs_preamble = EmptySrc
    /\ OnlyStep = 2 /\ FirstBlock.frame.x = "1"
    /\ frame.x = "unbound"

\* C21 (the claim as stated): run called twice in succession on the same
\* test record and the same shared environment returns the same result
\* and counts the same number of passed suites both times.
C21_SameResultTwice ==
    Len(results) = 2
      => /\ results[2].ret = results[1].ret
         /\ results[2].passed = results[1].passed

\* The same for the records without a hook under 'cache'
C21_SameWithoutHook ==
    "cache" \notin DOMAIN tests[1] => C21_SameResultTwice

\* C22 (the claim as stated): the declared total case count only makes a
\* note: run does not raise because the count is not declared, and what
\* it returns is decided by the suites that passed alone, whether
\* 'total_cases' is absent, 0, or more than the cases present.
C22_TotalCasesOnlyNoted ==
    \A k \in DOMAIN results :
        /\ results[k].ret # "KeyError"
        /\ results[k].ret \in {"True", "False"}
             => (results[k].ret = "True"
                   <=> results[k].passed = Len(tests[k].suites))

\* The same for the tests that declare a count
C22_DeclaredCountOnlyNoted ==
    \A k \in DOMAIN results :
        tests[k].total_cases # <<>> => results[k].ret # "KeyError"

\* -------------------------------------------------------- the exit status

\* A test of the store has the name
InStore(ts, name) ==
    \E k \in DOMAIN ts : \E i \in DOMAIN ts[k].name : ts[k].name[i] = name

\* The command line names a test that the store does not have
NamedMissing ==
    /\ args.name # "none"
    /\ ~InStore(IF args.mode = "unlock" THEN LockedTests ELSE tests, args.name)

\* The process has come to its end without a fault: unlock has returned,
\* or every call of run has returned a value, or another version of the
\* autograder was found
Completed ==
    \/ mode = "unlock" /\ pc = "exited" /\ outcome = "returned"
    \/ /\ apc = "exited"
       /\ results # <<>>
       /\ \A k \in DOMAIN results : results[k].ret \in {"True", "False"}
    \/ apc = "exited" /\ exit_how = "exit(0)"

\* C23 (the claim as stated): when the test named with -q or -u is not in
\* the store, nothing is run, nothing is unlocked, no store is rewritten
\* and the exit status is 1; a process that comes to its end without a
\* fault, an early stop at the first failing test included, has the exit
\* status 0.
C23_ExitStatus ==
    [][/\ NamedMissing
          => /\ UNCHANGED <<lockedDisk, unlockedDisk, locked, unlocked,
                            accepted, results, suite_log, post_log>>
             /\ code' # <<>> => code' = <<1>>
       /\ (~NamedMissing /\ Completed' /\ code' # <<>>) => code' = <<0>>
      ]_vars

\* C23 as amended: the same, the exit status 1 for a name that is not in
\* the store being that of a process which check_for_updates has let go
\* on; a process that ends because another version was found has the exit
\* status 0 whatever test is named.
C23_ExitStatusAfterUpdateCheck ==
    [][/\ NamedMissing
          => /\ UNCHANGED <<lockedDisk, unlockedDisk, locked, unlocked,
                            accepted, results, suite_log, post_log>>
             /\ (code' # <<>> /\ exit_how' # "exit(0)") => code' = <<1>>
       /\ (Completed' /\ code' # <<>> /\ (NamedMissing => exit_how' = "exit(0)"))
            => code' = <<0>>
      ]_vars

\* C23 witness: -u with a name that no test has, and the exit status 1
C23_Witness ==
    /\ args.mode = "unlock"
    /\ NamedMissing
    /\ lockedDisk # <<>>
    /\ code = <<1>>

\* A test has failed without -a, the tests after it were not run, and the
\* exit status is 0
C23_EarlyStop ==
    /\ ~all_flag
    /\ Len(tests) = 2
    /\ Len(results) = 1
    /\ results[1].ret = "False"
    /\ code = <<0>>

\* --------------------------------------------- the representation of tweets

\* C24: after an even number of calls of swap_tweet_representation() the
\* four names are bound to the representation they were bound to before
\* the first call, after an odd number to the functional one: the four
\* are of one representation always.
C24_SwapParity ==
    <<make_tweet, tweet_text, tweet_time, tweet_location>>
      = IF swaps % 2 = 0 THEN DictRep ELSE FnRep

\* C24 witness: two calls were made, and tweets made before them are
\* grouped as before
C24_Witness ==
    /\ swaps = 2
    /\ tweets # <<>>
    /\ tweets[1].rep = "dict"
    /\ tweets_by_state.kind = "dict"

\* ----------------------------------------------------- the tweets by state

\* The least distance of a position from a state center
Least(at) ==
    CHOOSE d \in 0..MaxPos :
        /\ \E k \in DOMAIN StateNames :
              d = geo_distance(at, states_centers[StateNames[k]])
        /\ \A k \in DOMAIN StateNames :
              d <= geo_distance(at, states_centers[StateNames[k]])

\* The places of tweet i in the lists of a dictionary
Places(dict, i) ==
    {<<state, j>> \in (DOMAIN dict) \X (1..Len(tweets)) :
        j \in DOMAIN dict[state] /\ dict[state][j] = i}

\* The tweets whose positions are the positions in ats are grouped as
\* the claim has it
WellGrouped(dict, ats) ==
    /\ \A i \in DOMAIN tweets :
          i \in ats
            => /\ Cardinality(Places(dict, i)) = 1
               /\ \A pl \in Places(dict, i) :
                     geo_distance(tweets[i].at, states_centers[pl[1]])
                       = Least(tweets[i].at)
    /\ \A state \in DOMAIN dict : dict[state] # <<>>

\* C25 (the claim as stated): group_tweets_by_state puts every tweet in
\* exactly one list, the list of a state whose center is as close to the
\* tweet as any center is, distance zero included, and there is no key
\* with an empty list.
C25_GroupedByClosest ==
    tweets_by_state.kind = "dict"
      => WellGrouped(tweets_by_state.dict, DOMAIN tweets)

\* The same for the tweets that are at no state center
C25_GroupedByClosestOffCenter ==
    tweets_by_state.kind = "dict"
      => WellGrouped(tweets_by_state.dict,
                     {i \in DOMAIN tweets : Least(tweets[i].at) # 0})

\* ------------------------------------------------ the threads and the frames

\* C28: the controller never reads or writes a dictionary in which a
\* worker is evaluating, nor one in which a worker was evaluating when
\* timed gave it up: every worker has a dictionary of its own.
C28_NoSharedFrame == clashes = {}

\* C28 witness: the worker of run_suite and the worker of the replay
\* never return, both were given up, run has done its postambles and is
\* over, and the two workers evaluate in two dictionaries
C28_Witness ==
    /\ cpc = "done"
    /\ Len(outcomes) = 2
    /\ \A k \in 1..2 :
          /\ outcomes[k].kind = "TimeoutError"
          /\ submissions[k].pc = "running"
    /\ call_frames[1] # call_frames[2]

\* ------------------------------------------------- the replay of a failure

\* C26 (the claim as stated): whenever run calls handle_failure for a
\* TestException of run_suite, the replay finds a failure and
\* handle_failure returns True, so that run's assertion holds.
C26_ReplayFindsFailure ==
    \A j \in DOMAIN hf_log : hf_log[j].kind = "True"

\* The same for the cases whose steps failed: a faulting expression, a
\* timeout, a value that is not the expected one
C26_ReplayFindsFailedStep ==
    \A j \in DOMAIN hf_log :
        hf_log[j].piece = "expr" => hf_log[j].kind = "True"

\* ------------------------------------------------- a case without a step

\* The script holds no source: there is nothing in it to evaluate
Blank(src) == \A i \in DOMAIN src : Strip(src[i]) = <<>>

\* The case that is run
ThisCase == rs_suite[case_idx]

C27_EveryScriptHasAStep ==
    \A k \in DOMAIN rs_suite : RunSteps(rs_suite[k].src) >= 1

\* ------------------------------------------------- the stores on the disk

\* A store on the disk is written by the step
Written == lockedDisk' # lockedDisk \/ unlockedDisk' # unlockedDisk

\* The process has ended by the return of unlock
UnlockReturned == mode = "unlock" /\ pc = "exited" /\ outcome = "returned"

\* C29: in unlock mode both stores are written in full when unlock has
\* returned, by completion or by abort, and not while the session lasts;
\* when unlock ends with an exception no store is written; in run mode no
\* store is written.
C29_StoresWrittenAtReturn ==
    [][/\ UnlockReturned' => lockedDisk' = locked' /\ unlockedDisk' = unlocked'
       /\ Written => UnlockReturned'
       /\ pc' = "prompt" => ~Written
       /\ (pc' = "exited" /\ outcome' # "returned") => ~Written
       /\ mode' = "run" => ~Written]_vars

\* unlock has returned and the stores on the disk are not those the
\* process has loaded
C29_Witness ==
    /\ UnlockReturned
    /\ lockedDisk # locked0
    /\ lockedDisk = locked
    /\ unlockedDisk = unlocked

\* unlock has ended with an exception
C29_FaultWitness ==
    /\ mode = "unlock" /\ pc = "exited" /\ outcome = "AssertionError"

\* ------------------------------------------------- the suite of a case

\* The suite a case was locked in (or distributed unlocked in)
SuiteOf(case) == case.id[1]

\* C30 (the claim as stated): a case unlocked from locked suite k is
\* in unlocked suite k, in every state of the stores that unlock sessions
\* reach.
C30_UnlockedInItsSuite ==
    \A s \in DOMAIN unlocked :
        \A i \in DOMAIN unlocked[s] : SuiteOf(unlocked[s][i]) = s

\* The case goes to its suite when the unlocked store has no suite after
\* the one that is being unlocked
C30_InItsSuiteWhenLast ==
    [][(pc = "prompt" /\ Len(unlocked) <= suite_num + 1)
         => \A s \in DOMAIN unlocked' :
              \A i \in DOMAIN unlocked'[s] :
                unlocked'[s][i].id \notin Ids(unlocked)
                  => SuiteOf(unlocked'[s][i]) = s]_vars

\* ------------------------------------------------- the places of a case

RECURSIVE NumCases(_)
\* The number of cases of a store
NumCases(store) ==
    IF store = <<>> THEN 0
    ELSE Len(store[Len(store)]) + NumCases(SubSeq(store, 1, Len(store) - 1))

\* Every case of the two stores is there once
EachOnce(L, U) ==
    /\ Ids(L) \cap Ids(U) = {}
    /\ Cardinality(Ids(L) \cup Ids(U)) = NumCases(L) + NumCases(U)

\* C31: in an unlock session every case of the test is in one place, its
\* locked suite or the unlocked store, and a step of the session (the
\* load of the stores, a correct answer, a wrong answer, an abort) keeps
\* the cases and their number: none is lost, none is there twice.
C31_EachCaseInOnePlace ==
    [][mode' = "unlock" =>
         LET L == IF pc = "prompt" THEN locked ELSE lockedDisk
             U == IF pc = "prompt" THEN unlocked ELSE unlockedDisk
         IN  /\ EachOnce(locked', unlocked')
             /\ Ids(locked') \cup Ids(unlocked') = Ids(L) \cup Ids(U)
             /\ NumCases(locked') + NumCases(unlocked')
                  = NumCases(L) + NumCases(U)]_vars

\* The session stands at a prompt after a wrong answer, with a case
\* unlocked in it, a case still locked and a case distributed unlocked
C31_Witness ==
    /\ mode = "unlock" /\ pc = "prompt" /\ wrong > 0
    /\ Ids(unlocked) \cap Ids(locked0) # {}
    /\ Ids(unlocked) \ Ids(locked0) # {}
    /\ Ids(locked) # {}

\* The session has been aborted and resumed, and has unlocked a case since
C31_ResumedWitness ==
    /\ mode = "unlock" /\ pc = "prompt"
    /\ lockedDisk # locked0
    /\ locked # lockedDisk

\* ------------------------------------------------- the steps of the replay

\* A line marked as an evaluation step
IsMarked(line) == StartsWith(line, <<DOLLAR, SP>>)

\* prompts of run_suite when it comes to line i: the steps met before
\* it, which are marked lines, as no line before line i is the last one
PromptsBefore(lines, i) == Cardinality({j \in 1..i - 1 : IsMarked(lines[j])})

\* The lines that handle_failure evaluates, and those that run_suite does
ReplayStepLines(lines) == {i \in DOMAIN lines : ReplayIsStep(lines, i)}
RunStepLines(lines) ==
    {i \in DOMAIN lines : IsStep(lines, i, PromptsBefore(lines, i))}

\* The cases that run_suite has come to, once it has started
Reached == {k \in DOMAIN rs_suite : rpc # "start" /\ k <= case_idx}

\* C32 (the claim as stated): of a script that run_suite has come to,
\* handle_failure takes the same lines for evaluation steps as run_suite
\* does, and so asks for as many expected outputs as run_suite.
C32_SameSteps ==
    \A k \in Reached :
        LET lines == process_input(rs_suite[k].src)
        IN  /\ ReplayStepLines(lines) = RunStepLines(lines)
            /\ Cardinality(ReplayStepLines(lines)) = RunSteps(rs_suite[k].src)

\* The two agree on the scripts whose last line is marked and on those
\* without a marked line
C32_SameStepsWhenLastIsStep ==
    \A k \in Reached :
        LET lines == process_input(rs_suite[k].src)
        IN  (IsMarked(lines[Len(lines)])
               \/ \A i \in DOMAIN lines : ~IsMarked(lines[i]))
              => ReplayStepLines(lines) = RunStepLines(lines)

====
